---- MODULE Spec2Model ----
(***************************************************************************)
(* Obsidotion synchronisation engine.                                      *)
(*                                                                         *)
(* Part 1 models SyncManager's operation queue (services/sync-manager.ts): *)
(* queueOperation, processQueue, executeOperation and the online/offline   *)
(* handlers.  processQueue is an async function that queueOperation and    *)
(* onlineHandler call without awaiting it, so every call is a separate     *)
(* loop; a loop runs synchronously up to the first await inside            *)
(* executeOperation, i.e. it shifts one operation and suspends while that  *)
(* operation is in flight.  An action of the model is one such synchronous *)
(* run between two suspension points.                                      *)
(***************************************************************************)
EXTENDS Integers, Sequences, FiniteSets, TLC

\* ------------------------------------------------------------------ bounds
MaxOps == 2        \* number of queueOperation calls in a behaviour
MaxNetFails == 2   \* number of network-class failures in a behaviour
MaxPages == 2      \* number of remote pages that createPage can create
MaxEdits == 2      \* number of changes made from outside (edits, read errors)
MaxPasses == 2     \* number of upload / pull passes in a behaviour
MaxBurst == 6      \* number of queueOperation calls in a burst
MaxBlocks == 4     \* number of blocks of a page that is rendered
MaxChunks == 2     \* number of result pages the service splits a listing in
MaxAsks == 2       \* number of times one conflict is put to the user
MaxAppend == 25     \* blocks in one call of appendBlocks
MaxBody == 7        \* characters typed into a document that is hashed

\* --------------------------------------------------------- program constants
MaxRetries == 3    \* sync-manager.ts:211  (operation.retries < 3)
BatchSize == 5     \* styles.css:672      (const batchSize = 5)

\* Document paths; a path is a sequence of characters.
PathA == <<"a", ".", "m", "d">>
PathB == <<"b", "'", ".", "m", "d">>
Paths == {PathA, PathB}

\* sync-manager.ts:8   type: 'upload' | 'download' | 'delete'
OpTypes == {"upload", "download", "delete"}

\* The (type, file) arguments the model gives to queueOperation.
OpInputs == {<<"upload", PathA>>, <<"upload", PathB>>, <<"delete", PathA>>}

VARIABLES
  syncQueue,       \* SyncManager.syncQueue : sequence of operation ids
  isOnline,        \* SyncManager.isOnline
  syncInProgress,  \* SyncManager.syncInProgress : set of paths
  status,          \* last argument given to updateStatus
  ops,             \* the SyncOperation objects created so far, by id
  inFlight,        \* operations between start and end of executeOperation
  netFailCount,    \* number of network-class failures so far
  offlineBy        \* operation whose network failure switched isOnline off

qvars == <<syncQueue, isOnline, syncInProgress, status, ops, inFlight,
           netFailCount, offlineBy>>

\* State of the plugin's manual passes (Part 2).
VARIABLES
  files,         \* Local Store: path -> document (text split in header, body)
  unreadable,    \* paths whose vault.read currently throws
  pages,         \* remote collection: page id -> page
  edits,         \* number of changes made from outside so far
  passes,        \* number of passes started so far
  pc,            \* position of the running pass
  selected,      \* filesToUpload / filesToUpdate of the running pass
  done,          \* indices of selected that have been attempted
  results,       \* outcome of each attempted index
  tally,         \* successful / failed / errors counters of the pass
  attempts,      \* path -> number of upload/update attempts in this pass
  queried,       \* page ids returned by queryDatabase in this pass
  archiveCalls,  \* page id -> number of deletePage calls in this pass
  synced         \* path -> local body and remote blocks at the last sync

pvars == <<files, unreadable, pages, edits, passes, pc, selected, done,
           results, tally, attempts, queried, archiveCalls, synced>>

\* A call of a service of the plugin that is stepped on its own (Part 3): the
\* function called, its arguments, its local variables and what it returned.
VARIABLE call

vars == <<qvars, pvars, call>>

OpIds == 1..MaxOps
NoOp == 0

\* ---------------------------------------------------------------- helpers
SeqToSet(s) == {s[i] : i \in 1..Len(s)}

\* sync-manager.ts:170-177, the object literal built by queueOperation;
\* execs/reports/netFailed/state observe the operation, they are not fields.
NoData == [id |-> 0, blocks |-> <<>>]     \* data undefined
NewOperation(t, f, data) ==
  [type |-> t, file |-> f, data |-> data, retries |-> 0,
   execs |-> 0, reports |-> 0, netFailed |-> FALSE, state |-> "queued"]

\* sync-manager.ts:211   if (operation.retries < 3)
ShouldRetryOffByOne(retries) == retries <= MaxRetries
ShouldRetry(retries) == retries < MaxRetries

\* sync-manager.ts:204   this.syncQueue.unshift(operation)
PutBackAtEnd(q, o) == Append(q, o)
PutBackNowhere(q, o) == q
PutBack(q, o) == <<o>> \o q

\* sync-manager.ts:194   while (this.syncQueue.length > 0 && this.isOnline)
LoopGuardNever(q, online) == FALSE
LoopGuardIgnoresOnline(q, online) == Len(q) > 0
LoopGuard(q, online) == Len(q) > 0 /\ online

\* sync-manager.ts:220   updateStatus(length > 0 ? 'offline' : 'synced')
ExitStatus(q) == IF Len(q) > 0 THEN "offline" ELSE "synced"

\* One evaluation of the while loop of processQueue (sync-manager.ts:194-200
\* and 220, with executeOperation's synchronous prefix 229-236): either
\* shift the head and start executing it, or leave the loop.
\* Result: the queue, syncInProgress, the operation started and the status.
LoopStep(q, online, sip, o) ==
  IF LoopGuard(q, online)
  THEN [q |-> Tail(q), sip |-> sip \cup {o[Head(q)].file},
        started |-> Head(q), status |-> "syncing"]
  ELSE [q |-> q, sip |-> sip, started |-> NoOp, status |-> ExitStatus(q)]

\* processQueue from its first line (sync-manager.ts:186-200).
ProcessQueueStart(q, online, sip, o) ==
  IF Len(q) = 0
  THEN [q |-> q, sip |-> sip, started |-> NoOp, status |-> "synced"]
  ELSE LoopStep(q, online, sip, o)

MarkStarted(o, id) ==
  IF id = NoOp THEN o
  ELSE [o EXCEPT ![id].state = "executing", ![id].execs = @ + 1]

StartedSet(id) == IF id = NoOp THEN {} ELSE {id}


\* ------------------------------------------------------------------ errors
\* An error object: its message (a sequence of characters), its code, and
\* where it was thrown ("network": by the transport, no response arrived;
\* "api": by makeRequest for a response with status >= 400; "local": by the
\* vault).
Str_network == <<"n", "e", "t", "w", "o", "r", "k">>
Str_fetch == <<"f", "e", "t", "c", "h">>
Str_timeout == <<"t", "i", "m", "e", "o", "u", "t">>

\* String.prototype.includes
Includes(str, sub) ==
  \E i \in 1..(Len(str) - Len(sub) + 1) :
    SubSeq(str, i, i + Len(sub) - 1) = sub

\* SyncManager.isNetworkError (sync-manager.ts:464-469)
IsNetworkErrorNever(error) == FALSE
IsNetworkError(error) ==
  \/ Includes(error.message, Str_network)
  \/ Includes(error.message, Str_fetch)
  \/ Includes(error.message, Str_timeout)
  \/ error.code = "ENOTFOUND"

\* upload-service.ts:224 (NotionAPIService.makeRequest, for status >= 400)
\*   throw new Error(`Request failed, status ${response.status}: ${errorMessage}`)
RequestFailedPrefix ==
  <<"R", "e", "q", "u", "e", "s", "t", " ", "f", "a", "i", "l", "e",
  "d", ",", " ", "s", "t", "a", "t", "u", "s", " ">>

ApiError(statusCode, errorMessage) ==
  [class |-> "api", code |-> "",
   message |-> RequestFailedPrefix \o statusCode \o <<":", " ">>
                 \o errorMessage]

\* Messages the remote service puts in the body of an error response.
ServiceMessages ==
  { <<"I", "n", "v", "a", "l", "i", "d">>,
    <<"G", "a", "t", "e", "w", "a", "y", " ", "t", "i", "m", "e", "o", "u", "t">> }

StatusCodes == {<<"5", "0", "4">>}

\* Errors of the transport (no response) and of the vault.
TransportErrors ==
  { [class |-> "network", code |-> "",
     message |-> <<"F", "a", "i", "l", "e", "d", " ", "t", "o", " ", "f", "e", "t", "c", "h">>],
    [class |-> "network", code |-> "ENOTFOUND",
     message |-> <<"g", "e", "t", "a", "d", "d", "r", "i", "n", "f", "o">>] }

LocalErrors ==
  { [class |-> "local", code |-> "ENOENT", message |-> <<"E", "N", "O", "E", "N", "T">>] }

Errors ==
  TransportErrors \cup LocalErrors \cup
  {ApiError(c, m) : c \in StatusCodes, m \in ServiceMessages}

\* sync-manager.ts:202   the errors for which isNetworkError(error) is true
NetworkClassified == {e \in Errors : IsNetworkError(e)}

\* The body of SyncManager.queueOperation (sync-manager.ts:170-184)
QueueOperationCall(t, f, data) ==
  /\ LET id == Len(ops) + 1
         o1 == Append(ops, NewOperation(t, f, data))
         q1 == Append(syncQueue, id)
         r  == IF isOnline
               THEN ProcessQueueStart(q1, isOnline, syncInProgress, o1)
               ELSE [q |-> q1, sip |-> syncInProgress, started |-> NoOp,
                     status |-> status]
     IN /\ syncQueue' = r.q
        /\ syncInProgress' = r.sip
        /\ status' = r.status
        /\ ops' = MarkStarted(o1, r.started)
        /\ inFlight' = inFlight \cup StartedSet(r.started)
  /\ UNCHANGED <<isOnline, netFailCount, offlineBy>>
  /\ UNCHANGED pvars

\* SyncManager.queueOperation (sync-manager.ts:170-184), called at most
\* MaxOps times
QueueOperation(t, f) ==
  /\ Len(ops) < MaxOps
  /\ QueueOperationCall(t, f, NoData)
  /\ UNCHANGED call

\* executeOperation returns normally (sync-manager.ts:251-253, 259-262) and
\* the loop of processQueue goes on (194-200, 220).
CompleteSuccess(id) ==
  /\ id \in inFlight
  /\ LET sip1 == syncInProgress \ {ops[id].file}
         o1 == [ops EXCEPT ![id].state = "succeeded"]
         r == LoopStep(syncQueue, isOnline, sip1, o1)
     IN /\ syncQueue' = r.q
        /\ syncInProgress' = r.sip
        /\ status' = r.status
        /\ ops' = MarkStarted(o1, r.started)
        /\ inFlight' = (inFlight \ {id}) \cup StartedSet(r.started)
  /\ UNCHANGED <<isOnline, netFailCount, offlineBy>>
  /\ UNCHANGED <<pvars, call>>

\* executeOperation throws an error that isNetworkError accepts
\* (sync-manager.ts:254-262, 201-207, 220).
FailNetwork(id) ==
  /\ id \in inFlight
  /\ netFailCount < MaxNetFails
  /\ LET q1 == PutBack(syncQueue, id)
     IN /\ syncQueue' = q1
        /\ status' = ExitStatus(q1)
  /\ syncInProgress' = syncInProgress \ {ops[id].file}
  /\ isOnline' = FALSE
  /\ ops' = [ops EXCEPT ![id].state = "queued", ![id].netFailed = TRUE]
  /\ inFlight' = inFlight \ {id}
  /\ netFailCount' = netFailCount + 1
  /\ offlineBy' = IF isOnline THEN id ELSE offlineBy
  /\ UNCHANGED <<pvars, call>>

\* executeOperation throws any other error (sync-manager.ts:254-262,
\* 208-216), then the loop goes on (194-200, 220).
FailOther(id) ==
  /\ id \in inFlight
  /\ LET sip1 == syncInProgress \ {ops[id].file}
         n == ops[id].retries + 1
         again == ShouldRetry(n)
         o1 == [ops EXCEPT ![id].retries = n,
                           ![id].state = IF again THEN "queued" ELSE "dropped",
                           ![id].reports = IF again THEN @ ELSE @ + 1]
         q1 == IF again THEN Append(syncQueue, id) ELSE syncQueue
         r == LoopStep(q1, isOnline, sip1, o1)
     IN /\ syncQueue' = r.q
        /\ syncInProgress' = r.sip
        /\ status' = r.status
        /\ ops' = MarkStarted(o1, r.started)
        /\ inFlight' = (inFlight \ {id}) \cup StartedSet(r.started)
  /\ UNCHANGED <<isOnline, netFailCount, offlineBy>>
  /\ UNCHANGED <<pvars, call>>

\* The catch block of processQueue (sync-manager.ts:201-217) for the error
\* that executeOperation re-throws at line 258.
ExecuteOperationThrows(id, error) ==
  /\ id \in inFlight
  /\ IF error \in NetworkClassified THEN FailNetwork(id) ELSE FailOther(id)

\* SyncManager.onlineHandler (sync-manager.ts:57-61)
OnlineSignal ==
  /\ LET r == ProcessQueueStart(syncQueue, TRUE, syncInProgress, ops)
     IN /\ syncQueue' = r.q
        /\ syncInProgress' = r.sip
        /\ status' = r.status
        /\ ops' = MarkStarted(ops, r.started)
        /\ inFlight' = inFlight \cup StartedSet(r.started)
  /\ isOnline' = TRUE
  /\ offlineBy' = NoOp
  /\ UNCHANGED netFailCount
  /\ UNCHANGED <<pvars, call>>

\* SyncManager.offlineHandler (sync-manager.ts:63-66)
OfflineSignal ==
  /\ isOnline' = FALSE
  /\ status' = "offline"
  /\ UNCHANGED <<syncQueue, syncInProgress, ops, inFlight, netFailCount,
                 offlineBy>>
  /\ UNCHANGED <<pvars, call>>

NextQueue ==
  \/ \E in \in OpInputs : QueueOperation(in[1], in[2])
  \/ \E id \in OpIds : CompleteSuccess(id)
  \/ \E id \in OpIds, e \in Errors : ExecuteOperationThrows(id, e)
  \/ OnlineSignal
  \/ OfflineSignal

\* The queue while the connectivity stays up: queueOperation is called at
\* most MaxOps times, no online or offline event arrives, and no error that
\* executeOperation throws is one that isNetworkError accepts.
NextLive ==
  \/ \E in \in OpInputs : QueueOperation(in[1], in[2])
  \/ \E id \in OpIds : CompleteSuccess(id)
  \/ \E id \in OpIds, e \in Errors \ NetworkClassified :
       ExecuteOperationThrows(id, e)

\* A burst of calls of queueOperation for one document (sync-manager.ts:
\* 170-184), as a caller makes them without waiting for the operations.
BurstQueueOperation ==
  /\ Len(ops) < MaxBurst
  /\ QueueOperationCall("upload", PathA, NoData)
  /\ UNCHANGED call

NextBurst ==
  \/ BurstQueueOperation
  \/ \E id \in 1..MaxBurst : CompleteSuccess(id)


(***************************************************************************)
(* Part 2: the plugin's manual passes (main.ts, stored as src/styles.css   *)
(* lines 436-1078): uploadToNotion with cleanupDeletedFiles,               *)
(* filterFilesForUpload and uploadSingleFile, and pullFromNotion with      *)
(* filterFilesForDownload.  A document's text is kept as its metadata      *)
(* header (already parsed) and the raw text that follows the header.       *)
(***************************************************************************)
Docs == Paths
DocOrder == <<PathA, PathB>>     \* order of vault.getMarkdownFiles()
PageIds == 1..MaxPages
NoId == 0                        \* frontmatter.notionID absent (falsy)
NoHash == <<-1, -1>>             \* frontmatter.contentHash absent
NoPath == <<>>                   \* frontmatter.filePath absent

\* Texts the users type; "\n" is the newline character.
InitialBody(f) == IF f = PathA THEN <<"x">> ELSE <<"\n", "x">>
Bodies == {<<"y">>}

\* String.charCodeAt for the characters of the texts.
CharCode(c) ==
  CASE c = "x" -> 120
    [] c = "y" -> 121
    [] c = "z" -> 122
    [] c = "\n" -> 10
    [] c = "-" -> 45

\* styles.css:834-835   hash = ((hash << 5) - hash) + char; hash = hash & hash
\* that is (31 * hash + char) wrapped to 32 bits.  A hash is kept as its two
\* 16-bit halves <<high, low>>, so that the wrap-around is computed exactly.
Half == 65536
HashStep(h, c) ==
  LET low == h[2] * 31 + CharCode(c)
  IN <<(h[1] * 31 + (low \div Half)) % Half, low % Half>>

RECURSIVE HashFrom(_, _)
HashFrom(h, str) ==
  IF str = <<>> THEN h ELSE HashFrom(HashStep(h, Head(str)), Tail(str))

\* ObsidotionPlugin.calculateContentHash (styles.css:829-838); the decimal
\* string of the result is kept as the 32-bit number it denotes.
CalculateContentHash(content) == HashFrom(<<0, 0>>, content)

\* part_004:230   value.replace(/['"]/g, '') in parseSimpleYaml, applied to
\* what stringifyYaml wrote.
YamlValue(v) == SelectSeq(v, LAMBDA c : c \notin {"'", "\""})

\* part_004:200   the (\s*\n) that follows the closing --- of the header
\* swallows the blank lines at the start of the text after the header.
RECURSIVE StripLeadingBlank(_)
StripLeadingBlank(str) ==
  IF str # <<>> /\ Head(str) = "\n" THEN StripLeadingBlank(Tail(str)) ELSE str

EmptyFrontmatter == [notionID |-> NoId, contentHash |-> NoHash,
                     filePath |-> NoPath]

\* MarkdownConverter.parseMarkdownWithFrontmatter (part_004:199-214)
ParseMarkdownWithFrontmatter(file) ==
  IF file.hdr
  THEN [frontmatter |-> file.fm, content |-> StripLeadingBlank(file.body)]
  ELSE [frontmatter |-> EmptyFrontmatter, content |-> file.body]

Paragraph(t) == [type |-> "paragraph", text |-> t]

\* MarkdownConverter.markdownToNotionBlocks (part_004:15-46).  The parser it
\* calls is a library; the model keeps the text in one paragraph block, the
\* shape of the block built at lines 33-42.
MarkdownToNotionBlocks(markdown) == <<Paragraph(markdown)>>

BulletedListItem(t) == [type |-> "bulleted_list_item", text |-> t]
NumberedListItem(t) == [type |-> "numbered_list_item", text |-> t]

\* part_004:62   const indent = '    '.repeat(indentLevel)
Indent(indentLevel) == [i \in 1..(4 * indentLevel) |-> " "]

\* Number-to-string conversion of a template literal (part_004:93).
DigitChar(d) == <<"0", "1", "2", "3", "4", "5", "6", "7", "8", "9">>[d + 1]

RECURSIVE NumberToString(_)
NumberToString(n) ==
  IF n < 10 THEN <<DigitChar(n)>>
  ELSE NumberToString(n \div 10) \o <<DigitChar(n % 10)>>

\* The array numbering, indexed by indent level; an element that was never
\* assigned is undefined, kept as 0.
\* part_004:92   const currentNumber = numbering[indentLevel] || 1
CurrentNumber(numbering, indentLevel) ==
  IF indentLevel + 1 <= Len(numbering) /\ numbering[indentLevel + 1] # 0
  THEN numbering[indentLevel + 1]
  ELSE 1

\* part_004:94   numbering[indentLevel] = currentNumber + 1
AssignNumbering(numbering, indentLevel, n) ==
  LET len == IF Len(numbering) > indentLevel + 1 THEN Len(numbering)
             ELSE indentLevel + 1
  IN [i \in 1..len |->
        IF i = indentLevel + 1 THEN n
        ELSE IF i <= Len(numbering) THEN numbering[i] ELSE 0]

\* MarkdownConverter.extractRichText (part_004:149-170) for rich-text items
\* without links: the content of each item wrapped in the marks of its
\* annotations, joined.  "backtick" stands for the character U+0060.
RECURSIVE ExtractRichText(_)
ExtractRichText(richTextArray) ==
  IF richTextArray = <<>> THEN <<>>
  ELSE LET item == Head(richTextArray)
           t1 == IF item.bold THEN <<"*", "*">> \o item.content \o <<"*", "*">>
                 ELSE item.content
           t2 == IF item.italic THEN <<"*">> \o t1 \o <<"*">> ELSE t1
           t3 == IF item.code THEN <<"backtick">> \o t2 \o <<"backtick">>
                 ELSE t2
           t4 == IF item.strikethrough THEN <<"~", "~">> \o t3 \o <<"~", "~">>
                 ELSE t3
       IN t4 \o ExtractRichText(Tail(richTextArray))

\* part_004:155   item.text?.content throws a TypeError when an element of
\* the rich-text array is null; every case of the switch but divider and
\* table maps over the array, the default case through extractAnyRichText
\* (part_004:172-180).  The error is caught at part_004:141-144.
ThrowsNever(block) == FALSE
ThrowsInSwitch(block) ==
  /\ "rich_text" \in DOMAIN block
  /\ block.type \notin {"divider", "table"}
  /\ \E i \in 1..Len(block.rich_text) : block.rich_text[i] = [null |-> TRUE]

\* MarkdownConverter.blockToMarkdown (part_004:61-147); the text of a block
\* is what extractRichText returns for it (for an image, for its caption).
\* Result: the markup of the block and the array numbering afterwards.
BlockToMarkdown(block, indentLevel, numbering) ==
  IF ThrowsInSwitch(block)
  THEN [markdown |-> Indent(indentLevel)
                       \o <<"[Error converting block of type: ", block.type,
                            "]", "\n">>,
        numbering |-> numbering]
  ELSE
  CASE block.type = "paragraph" ->
         [markdown |-> Indent(indentLevel) \o block.text \o <<"\n">>,
          numbering |-> numbering]
    [] block.type = "bulleted_list_item" ->
         [markdown |-> Indent(indentLevel) \o <<"-", " ">> \o block.text
                         \o <<"\n">>,
          numbering |-> numbering]
    [] block.type = "numbered_list_item" ->
         LET currentNumber == CurrentNumber(numbering, indentLevel)
         IN [markdown |-> Indent(indentLevel) \o NumberToString(currentNumber)
                            \o <<".", " ">> \o block.text \o <<"\n">>,
             numbering |-> AssignNumbering(numbering, indentLevel,
                                           currentNumber + 1)]
    [] block.type \in {"heading_1", "heading_2", "heading_3"} ->
         [markdown |-> (CASE block.type = "heading_1" -> <<"#", " ">>
                          [] block.type = "heading_2" -> <<"#", "#", " ">>
                          [] OTHER -> <<"#", "#", "#", " ">>)
                       \o block.text \o <<"\n">>,
          numbering |-> numbering]
    [] block.type = "code" ->
         [markdown |-> <<"backtick", "backtick", "backtick">> \o block.language \o <<"\n">>
                         \o block.text \o <<"\n", "backtick", "backtick", "backtick", "\n">>,
          numbering |-> numbering]
    [] block.type = "quote" ->
         [markdown |-> <<">", " ">> \o block.text \o <<"\n">>,
          numbering |-> numbering]
    [] block.type = "divider" ->
         [markdown |-> <<"-", "-", "-", "\n">>, numbering |-> numbering]
    [] block.type = "table" ->
         [markdown |-> <<"| Table content needs to be fetched from child blocks |",
                         "\n", "|", "-", "-", "-", "|", "\n", "\n">>,
          numbering |-> numbering]
    [] block.type = "image" ->
         [markdown |-> IF block.url = <<>> THEN <<>>
                       ELSE <<"!", "[">> \o block.text \o <<"]", "(">>
                              \o block.url \o <<")", "\n">>,
          numbering |-> numbering]
    [] block.type = "to_do" ->
         [markdown |-> Indent(indentLevel) \o <<"-", " ", "[">>
                         \o (IF block.checked THEN <<"x">> ELSE <<" ">>)
                         \o <<"]", " ">> \o block.text \o <<"\n">>,
          numbering |-> numbering]
    [] OTHER ->
         [markdown |-> IF block.text = <<>> THEN <<>>
                       ELSE Indent(indentLevel) \o block.text \o <<"\n">>,
          numbering |-> numbering]

\* The loop of MarkdownConverter.notionBlocksToMarkdown (part_004:51-59);
\* all its iterations share the array numbering.
RECURSIVE BlocksToMarkdownFrom(_, _, _)
BlocksToMarkdownFrom(blocks, indentLevel, numbering) ==
  IF blocks = <<>> THEN [markdown |-> <<>>, numbering |-> numbering]
  ELSE LET first == BlockToMarkdown(Head(blocks), indentLevel, numbering)
           rest == BlocksToMarkdownFrom(Tail(blocks), indentLevel,
                                        first.numbering)
       IN [markdown |-> first.markdown \o rest.markdown,
           numbering |-> rest.numbering]

\* MarkdownConverter.notionBlocksToMarkdown with its default arguments
\* (part_004:51: indentLevel = 0, numbering = [])
NotionBlocksToMarkdown(blocks) == BlocksToMarkdownFrom(blocks, 0, <<>>).markdown

\* TFile.basename: the file name without its ".md" extension.
Basename(path) == SubSeq(path, 1, Len(path) - 3)

\* styles.css:721   const title = `${file.path}:${file.basename}`
TitleOfBasename(path) == Basename(path)
TitleOf(path) == path \o <<":">> \o Basename(path)

\* Blocks a user of the remote service types into a page.
RemoteEdits == {<<Paragraph(<<"z">>)>>}

NoFile == [exists |-> FALSE, hdr |-> FALSE, fm |-> EmptyFrontmatter,
           body |-> <<>>]
NewFile(b) == [exists |-> TRUE, hdr |-> FALSE, fm |-> EmptyFrontmatter,
               body |-> b]
NoPage == [created |-> FALSE, archived |-> FALSE, title |-> <<>>,
           blocks |-> <<>>]

\* vault.read(file) succeeds
Readable(f) == files[f].exists /\ f \notin unreadable

\* the remote id a document is bound to, whether or not it can be read
BoundId(f) == IF files[f].exists /\ files[f].hdr THEN files[f].fm.notionID
              ELSE NoId

NoCall == [fn |-> "none"]

ZeroTally == [kind |-> "none", outcome |-> "none",
              successful |-> 0, failed |-> 0, errors |-> 0]

\* The state after the constructors: SyncManager (sync-manager.ts:43-72) and
\* the plugin's onload (styles.css:463-539), with two documents in the vault
\* that were never synced and an empty remote collection.
Init ==
  /\ syncQueue = <<>>
  /\ isOnline = TRUE
  /\ syncInProgress = {}
  /\ status = "synced"
  /\ ops = <<>>
  /\ inFlight = {}
  /\ netFailCount = 0
  /\ offlineBy = NoOp
  /\ files = [f \in Docs |-> NewFile(InitialBody(f))]
  /\ unreadable = {}
  /\ pages = [p \in PageIds |-> NoPage]
  /\ edits = 0
  /\ passes = 0
  /\ pc = "idle"
  /\ selected = <<>>
  /\ done = {}
  /\ results = <<>>
  /\ tally = ZeroTally
  /\ attempts = [f \in Docs |-> 0]
  /\ queried = {}
  /\ archiveCalls = [p \in PageIds |-> 0]
  /\ synced = [f \in Docs |-> [local |-> <<>>, remote |-> <<>>]]
  /\ call = NoCall

passState == <<passes, pc, selected, done, results, tally, attempts,
               queried, archiveCalls>>

\* ------------------------------------------------------------ environment
\* The user edits the text of a document (below the header).
LocalEdit(f, b) ==
  /\ edits < MaxEdits
  /\ files[f].exists
  /\ files[f].body # b
  /\ files' = [files EXCEPT ![f].body = b]
  /\ edits' = edits + 1
  /\ UNCHANGED <<unreadable, pages, synced, passState, qvars, call>>

\* The user deletes a document from the vault.
LocalDelete(f) ==
  /\ edits < MaxEdits
  /\ files[f].exists
  /\ files' = [files EXCEPT ![f] = NoFile]
  /\ unreadable' = unreadable \ {f}
  /\ edits' = edits + 1
  /\ UNCHANGED <<pages, synced, passState, qvars, call>>

\* A user of the remote service replaces the content of a page.
RemoteEdit(p, bl) ==
  /\ edits < MaxEdits
  /\ pages[p].created /\ ~pages[p].archived
  /\ pages[p].blocks # bl
  /\ pages' = [pages EXCEPT ![p].blocks = bl]
  /\ edits' = edits + 1
  /\ UNCHANGED <<files, unreadable, synced, passState, qvars, call>>

\* A document becomes unreadable (vault.read throws), or readable again.
ToggleReadable(f) ==
  /\ edits < MaxEdits
  /\ files[f].exists
  /\ unreadable' = IF f \in unreadable THEN unreadable \ {f}
                   ELSE unreadable \cup {f}
  /\ edits' = edits + 1
  /\ UNCHANGED <<files, pages, synced, passState, qvars, call>>


\* ------------------------------------------------------------ upload pass
\* styles.css:891-903   the remote ids found in the documents that can be read
CurrentNotionIds ==
  {ParseMarkdownWithFrontmatter(files[f]).frontmatter.notionID :
     f \in {g \in Docs : Readable(g)}} \ {NoId}

\* NotionAPIService.queryDatabase (upload-service.ts:379-401) as the remote
\* service answers it: the pages of the collection that are not archived.
QueryDatabase == {p \in PageIds : pages[p].created /\ ~pages[p].archived}

\* styles.css:910-921   pages whose id is in no readable document
PagesToDelete(all, ids) == all \ ids

FreshPass(kind) == [ZeroTally EXCEPT !.kind = kind, !.outcome = "running"]

\* uploadToNotion up to the end of cleanupDeletedFiles (styles.css:650-654,
\* 883-942).  queryOk: the query succeeded; archFail: pages whose deletePage
\* request fails (caught at 931-933).
CleanupDeletedFiles(queryOk, archFail) ==
  /\ pc = "idle"
  /\ passes < MaxPasses
  /\ LET all == IF queryOk THEN QueryDatabase ELSE {}
         del == PagesToDelete(all, CurrentNotionIds)
     IN /\ archFail \subseteq del
        /\ pages' = [p \in PageIds |->
                       IF p \in del \ archFail
                       THEN [pages[p] EXCEPT !.archived = TRUE]
                       ELSE pages[p]]
        /\ queried' = all
        /\ archiveCalls' = [p \in PageIds |-> IF p \in del THEN 1 ELSE 0]
  /\ passes' = passes + 1
  /\ pc' = "filter"
  /\ selected' = <<>>
  /\ done' = {}
  /\ results' = <<>>
  /\ tally' = FreshPass("upload")
  /\ attempts' = [f \in Docs |-> 0]
  /\ UNCHANGED <<files, unreadable, edits, synced, qvars, call>>

\* styles.css:804-819   the three tests of filterFilesForUpload
NeedsUploadAlways(fm, hash, path) == TRUE
NeedsUpload(fm, hash, path) ==
  \/ fm.notionID = NoId
  \/ fm.contentHash # hash
  \/ fm.filePath # path

\* filterFilesForUpload applied to one document (styles.css:796-823)
SelectedForUpload(f) ==
  /\ Readable(f)
  /\ LET p == ParseMarkdownWithFrontmatter(files[f])
     IN NeedsUpload(p.frontmatter, CalculateContentHash(p.content), f)

\* ObsidotionPlugin.filterFilesForUpload and the test that follows it in
\* uploadToNotion (styles.css:657-665, 793-827)
FilterFilesForUpload ==
  /\ pc = "filter"
  /\ LET sel == SelectSeq(DocOrder, LAMBDA f : SelectedForUpload(f))
     IN /\ selected' = [k \in 1..Len(sel) |-> [file |-> sel[k]]]
        /\ pc' = IF Len(sel) = 0 THEN "idle" ELSE "upload"
        /\ tally' = IF Len(sel) = 0 THEN [tally EXCEPT !.outcome = "uptodate"]
                    ELSE tally
  /\ UNCHANGED <<files, unreadable, pages, edits, passes, done, results,
                 attempts, queried, archiveCalls, synced, qvars, call>>

\* styles.css:674-675   the indices of the batch being processed
CurrentBatch ==
  LET start == (Cardinality(done) \div BatchSize) * BatchSize
  IN {k \in 1..Len(selected) : k > start /\ k <= start + BatchSize}

\* createPage gives the new page the next unused id
NextPageId == CHOOSE p \in PageIds :
                ~pages[p].created /\ \A q \in 1..(p - 1) : pages[q].created
HasFreePage == \E p \in PageIds : ~pages[p].created

\* The outcomes uploadSingleFile can have for document f (styles.css:709-762):
\* which call throws, if any.  metaFail: the write of updateFileMetadata
\* throws, which is caught at 787-790.
UploadOutcomes(f) ==
  IF ~Readable(f) THEN {"readFail"}
  ELSE LET id == ParseMarkdownWithFrontmatter(files[f]).frontmatter.notionID
       IN IF id = NoId
          THEN {"createFail"} \cup
               (IF HasFreePage THEN {"ok", "metaFail"} ELSE {})
          ELSE IF pages[id].archived THEN {"updateFail"}
          ELSE {"ok", "metaFail", "updateFail", "clearFail", "appendFail"}

\* styles.css:748-760   the result uploadSingleFile returns
UploadResult(outcome) ==
  IF outcome \in {"ok", "metaFail"} THEN "ok" ELSE "fail"

\* The remote page after the calls of uploadSingleFile (styles.css:728-743)
PageAfterUpload(f, id, blocks, outcome) ==
  CASE outcome \in {"ok", "metaFail"} ->
         [created |-> TRUE, archived |-> FALSE, title |-> TitleOf(f),
          blocks |-> blocks]
    [] outcome = "clearFail" -> [pages[id] EXCEPT !.title = TitleOf(f)]
    [] outcome = "appendFail" ->
         [pages[id] EXCEPT !.title = TitleOf(f), !.blocks = <<>>]
    [] OTHER -> pages[id]

\* ObsidotionPlugin.updateFileMetadata (styles.css:764-791): the document
\* written back, with the header as it is parsed at the next read.
FileWithMetadata(f, id) ==
  LET content == ParseMarkdownWithFrontmatter(files[f]).content
  IN [exists |-> TRUE, hdr |-> TRUE,
      fm |-> [notionID |-> id,
              contentHash |-> CalculateContentHash(content),
              filePath |-> YamlValue(f)],
      body |-> content]

\* styles.css:681-694   counting the results of a settled batch
TallyBatch(t, res, batch) ==
  LET ok == Cardinality({k \in batch : res[k] = "ok"})
      ko == Cardinality({k \in batch : res[k] = "fail"})
  IN [t EXCEPT !.successful = @ + ok, !.failed = @ + ko, !.errors = @ + ko]

\* styles.css:728-745   updateFileMetadata is reached, and its write done,
\* when no call before it has thrown
WritesMetadataAlways(outcome) == TRUE
WritesMetadata(outcome) == outcome = "ok"

\* uploadSingleFile for selected[k] (styles.css:709-762) and, when it is the
\* last of its batch, the processing of the batch results (678-700).
UploadSingleFile(k, outcome) ==
  /\ pc = "upload"
  /\ k \in CurrentBatch \ done
  /\ LET f == selected[k].file
         parsed == ParseMarkdownWithFrontmatter(files[f])
         old == parsed.frontmatter.notionID
         id == IF old # NoId THEN old
               ELSE IF HasFreePage THEN NextPageId ELSE NoId
         blocks == MarkdownToNotionBlocks(parsed.content)
         res == [j \in DOMAIN results \cup {k} |->
                   IF j = k THEN UploadResult(outcome) ELSE results[j]]
         batch == CurrentBatch
         settled == batch \subseteq (done \cup {k})
         t1 == IF settled THEN TallyBatch(tally, res, batch) ELSE tally
     IN /\ outcome \in UploadOutcomes(f)
        /\ pages' = IF outcome \in {"readFail", "createFail", "updateFail"}
                    THEN pages
                    ELSE [pages EXCEPT
                            ![id] = PageAfterUpload(f, id, blocks, outcome)]
        /\ files' = IF WritesMetadata(outcome)
                    THEN [files EXCEPT ![f] = FileWithMetadata(f, id)]
                    ELSE files
        /\ synced' = IF outcome \in {"ok", "metaFail"}
                     THEN [synced EXCEPT ![f] =
                             [local |-> files'[f].body, remote |-> blocks]]
                     ELSE synced
        /\ results' = res
        /\ done' = done \cup {k}
        /\ attempts' = [attempts EXCEPT ![f] = @ + 1]
        /\ pc' = IF done' = 1..Len(selected) THEN "idle" ELSE "upload"
        /\ tally' = IF done' = 1..Len(selected)
                    THEN [t1 EXCEPT !.outcome = "completed"] ELSE t1
  /\ UNCHANGED <<unreadable, edits, passes, selected, queried, archiveCalls,
                 qvars, call>>


\* -------------------------------------------------------------- pull pass
\* upload-service.ts:332-333   the request getPageBlocks sends for a page
GetPageBlocksAsDelete(pageId) == [method |-> "DELETE", page |-> pageId]
GetPageBlocksRequest(pageId) == [method |-> "GET", page |-> pageId]

\* The remote collection after the service has served the requests that
\* makeRequest (upload-service.ts:166-235) sent, in order: GET reads, DELETE
\* of a page moves it to the trash.
RECURSIVE ServeAll(_, _)
ServeAll(pg, reqs) ==
  IF reqs = <<>> THEN pg
  ELSE LET r == Head(reqs)
           pg1 == IF r.method = "DELETE" /\ pg[r.page].created
                  THEN [pg EXCEPT ![r.page].archived = TRUE]
                  ELSE pg
       IN ServeAll(pg1, Tail(reqs))

\* styles.css:861   the test of filterFilesForDownload
NeedsDownload(fm, localHash, notionHash) ==
  fm.contentHash # notionHash /\ localHash # notionHash

\* filterFilesForDownload applied to one document (styles.css:843-876);
\* fetchFail: the pages whose getPageBlocks request throws.
SelectedForDownload(f, fetchFail) ==
  /\ Readable(f)
  /\ LET p == ParseMarkdownWithFrontmatter(files[f])
         id == p.frontmatter.notionID
     IN /\ id # NoId
        /\ id \notin fetchFail
        /\ NeedsDownload(p.frontmatter, CalculateContentHash(p.content),
             CalculateContentHash(NotionBlocksToMarkdown(pages[id].blocks)))

DownloadEntry(f) ==
  LET id == files[f].fm.notionID
  IN [file |-> f, notionId |-> id, blocks |-> pages[id].blocks,
      notionContent |-> NotionBlocksToMarkdown(pages[id].blocks)]

\* pullFromNotion up to the test of filesToUpdate (styles.css:597-609,
\* 840-879)
FilterFilesForDownload(fetchFail) ==
  /\ pc = "idle"
  /\ passes < MaxPasses
  /\ LET sel == SelectSeq(DocOrder,
                          LAMBDA f : SelectedForDownload(f, fetchFail))
         asked == SelectSeq(DocOrder,
                            LAMBDA f : Readable(f) /\ BoundId(f) # NoId)
     IN /\ selected' = [k \in 1..Len(sel) |-> DownloadEntry(sel[k])]
        /\ pages' = ServeAll(pages, [k \in 1..Len(asked) |->
                                      GetPageBlocksRequest(BoundId(asked[k]))])
        /\ pc' = IF Len(sel) = 0 THEN "idle" ELSE "confirm"
        /\ tally' = IF Len(sel) = 0
                    THEN [FreshPass("pull") EXCEPT !.outcome = "uptodate"]
                    ELSE FreshPass("pull")
  /\ passes' = passes + 1
  /\ done' = {}
  /\ results' = <<>>
  /\ attempts' = [f \in Docs |-> 0]
  /\ queried' = {}
  /\ archiveCalls' = [p \in PageIds |-> 0]
  /\ UNCHANGED <<files, unreadable, edits, synced, qvars, call>>

\* styles.css:611-613   the answer of showPullConfirmation
ConfirmPullIgnoresAnswer(confirmed) ==
  /\ pc = "confirm"
  /\ pc' = "pull"
  /\ tally' = IF confirmed THEN tally ELSE [tally EXCEPT !.outcome = "declined"]
  /\ UNCHANGED <<files, unreadable, pages, edits, passes, selected, done,
                 results, attempts, queried, archiveCalls, synced, qvars, call>>
ConfirmPull(confirmed) ==
  /\ pc = "confirm"
  /\ pc' = IF confirmed THEN "pull" ELSE "idle"
  /\ tally' = IF confirmed THEN tally ELSE [tally EXCEPT !.outcome = "declined"]
  /\ UNCHANGED <<files, unreadable, pages, edits, passes, selected, done,
                 results, attempts, queried, archiveCalls, synced, qvars, call>>

\* styles.css:619, 641-645   the for loop ends after its last element; an
\* error in the body is caught and the loop goes on.
PullFinishedOnError(k, n, res) == k = n \/ res = "fail"
PullFinished(k, n, res) == k = n

\* styles.css:629-636   the document pullFromNotion writes
FileWithNotionContent(f, notionContent) ==
  LET fm == ParseMarkdownWithFrontmatter(files[f]).frontmatter
  IN [exists |-> TRUE, hdr |-> TRUE,
      fm |-> [fm EXCEPT !.contentHash = CalculateContentHash(notionContent)],
      body |-> notionContent]

PullOutcomes(f) == IF Readable(f) THEN {"ok", "writeFail"} ELSE {"readFail"}

\* One iteration of the loop of pullFromNotion (styles.css:619-645), and the
\* end of the pass after the last one (647).
PullOne(outcome) ==
  /\ pc = "pull"
  /\ LET k == Cardinality(done) + 1
         e == selected[k]
         f == e.file
         res == IF outcome = "ok" THEN "ok" ELSE "fail"
         fin == PullFinished(k, Len(selected), res)
     IN /\ outcome \in PullOutcomes(f)
        /\ files' = IF outcome = "ok"
                    THEN [files EXCEPT
                            ![f] = FileWithNotionContent(f, e.notionContent)]
                    ELSE files
        /\ synced' = IF outcome = "ok"
                     THEN [synced EXCEPT ![f] =
                             [local |-> e.notionContent, remote |-> e.blocks]]
                     ELSE synced
        /\ results' = [j \in DOMAIN results \cup {k} |->
                         IF j = k THEN res ELSE results[j]]
        /\ done' = done \cup {k}
        /\ attempts' = [attempts EXCEPT ![f] = @ + 1]
        /\ tally' = [tally EXCEPT
                       !.successful = IF res = "ok" THEN @ + 1 ELSE @,
                       !.failed = IF res = "fail" THEN @ + 1 ELSE @,
                       !.errors = IF res = "fail" THEN @ + 1 ELSE @,
                       !.outcome = IF fin THEN "completed" ELSE @]
        /\ pc' = IF fin THEN "idle" ELSE "pull"
  /\ UNCHANGED <<unreadable, pages, edits, passes, selected, queried,
                 archiveCalls, qvars, call>>

UploadStep == \E k \in 1..Cardinality(Docs), o \in
                {"ok", "metaFail", "readFail", "createFail", "updateFail",
                 "clearFail", "appendFail"} : UploadSingleFile(k, o)

PullStep == \E o \in {"ok", "writeFail", "readFail"} : PullOne(o)

NextSync ==
  \/ \E f \in Docs, b \in Bodies : LocalEdit(f, b)
  \/ \E f \in Docs : LocalDelete(f)
  \/ \E p \in PageIds, bl \in RemoteEdits : RemoteEdit(p, bl)
  \/ \E f \in Docs : ToggleReadable(f)
  \/ \E q \in BOOLEAN, af \in SUBSET PageIds : CleanupDeletedFiles(q, af)
  \/ FilterFilesForUpload
  \/ UploadStep
  \/ \E ff \in SUBSET PageIds : FilterFilesForDownload(ff)
  \/ \E c \in BOOLEAN : ConfirmPull(c)
  \/ PullStep

(***************************************************************************)
(* Part 3: services called on their own.  The variable call holds the call *)
(* that was made last: the function, its arguments and its result.         *)
(***************************************************************************)
\* The blocks of the pages that are rendered: paragraphs and list items.
BlockKinds ==
  {Paragraph(<<"x">>), BulletedListItem(<<"x">>), NumberedListItem(<<"x">>)}

BlockLists == UNION {[1..n -> BlockKinds] : n \in 1..MaxBlocks}

\* A call of MarkdownConverter.notionBlocksToMarkdown(blocks) (part_004:51-59)
NotionBlocksToMarkdownCall(blocks) ==
  /\ call' = [fn |-> "notionBlocksToMarkdown", blocks |-> blocks,
              result |-> NotionBlocksToMarkdown(blocks)]
  /\ UNCHANGED <<qvars, pvars>>

NextRender == \E blocks \in BlockLists : NotionBlocksToMarkdownCall(blocks)

\* Blocks as getPageBlocks returns them for a page with nested list items:
\* has_children is the flag of the block object, children are the blocks
\* the remote service holds under block.id (what getPageBlocks(block.id)
\* would return).
NestedKinds ==
  { [type |-> k, text |-> <<"x">>, has_children |-> kids # <<>>,
     children |-> kids] :
      k \in {"paragraph", "bulleted_list_item", "numbered_list_item"},
      kids \in {<<>>, <<Paragraph(<<"y">>)>>} }
    \ {[type |-> "paragraph", text |-> <<"x">>, has_children |-> TRUE,
         children |-> <<Paragraph(<<"y">>)>>]}

\* Calls of notionBlocksToMarkdown for such pages (part_004:51-59)
NextNested ==
  \E blocks \in UNION {[1..n -> NestedKinds] : n \in 1..MaxBlocks} :
    NotionBlocksToMarkdownCall(blocks)


\* Blocks of every type blockToMarkdown has a case for (part_004:68-135),
\* with one rich-text item that carries annotations; text is what
\* extractRichText returns for rich_text.  A divider and a table have no
\* text of their own.
RichBlocks ==
  { [type |-> t, rich_text |-> <<item>>, text |-> ExtractRichText(<<item>>),
     checked |-> FALSE, language |-> <<>>, url |-> <<"u">>] :
      t \in {"paragraph", "heading_1", "heading_2", "heading_3",
             "bulleted_list_item", "numbered_list_item", "to_do", "code",
             "quote", "image"},
      item \in [content : {<<"x">>, <<"*", "*", "x", "*", "*">>},
                bold : BOOLEAN, italic : BOOLEAN, code : BOOLEAN,
                strikethrough : {FALSE}] }
  \cup
  { [type |-> t, rich_text |-> <<>>, text |-> <<>>, checked |-> FALSE,
     language |-> <<>>, url |-> <<>>] : t \in {"divider", "table"} }

\* Blocks of a page that holds what the converter has no case for: a block
\* of a type outside the switch with rich text, one without any, and a
\* paragraph whose rich-text array holds null; next to a paragraph and a
\* numbered item.
OddKinds ==
  { Paragraph(<<"x">>), NumberedListItem(<<"x">>),
    [type |-> "callout", text |-> <<"u">>],
    [type |-> "unsupported", text |-> <<>>],
    [type |-> "paragraph", text |-> <<>>, rich_text |-> <<[null |-> TRUE]>>] }

\* Calls of notionBlocksToMarkdown (part_004:51-59) for one block with
\* annotations, and for pages of odd blocks
NextCodec ==
  \/ \E B \in RichBlocks : NotionBlocksToMarkdownCall(<<B>>)
  \/ \E blocks \in UNION {[1..n -> OddKinds] : n \in 1..MaxBlocks} :
       NotionBlocksToMarkdownCall(blocks)

\* ------------------------------------------- DownloadService.downloadPage
\* String.prototype.lastIndexOf for one character: the index (from 0) of
\* its last occurrence, -1 when there is none.
LastIndexOfFromOne(str, c) ==
  IF \E i \in 1..Len(str) : str[i] = c
  THEN CHOOSE i \in 1..Len(str) :
         str[i] = c /\ \A j \in (i + 1)..Len(str) : str[j] # c
  ELSE -1
LastIndexOf(str, c) ==
  IF \E i \in 1..Len(str) : str[i] = c
  THEN (CHOOSE i \in 1..Len(str) :
          str[i] = c /\ \A j \in (i + 1)..Len(str) : str[j] # c) - 1
  ELSE -1

\* String.prototype.substring(start, end) and substring(start), for
\* start <= end; a negative index counts as 0.
Substring(str, start, end) ==
  LET a == IF start < 0 THEN 0 ELSE start
      b == IF end < 0 THEN 0 ELSE IF end > Len(str) THEN Len(str) ELSE end
  IN SubSeq(str, a + 1, b)
SubstringFrom(str, start) == Substring(str, start, Len(str))

\* String.prototype.endsWith
EndsWith(str, suffix) ==
  /\ Len(str) >= Len(suffix)
  /\ SubSeq(str, Len(str) - Len(suffix) + 1, Len(str)) = suffix

\* Validator.validateFilePath (validator.ts:35-39)
InvalidChars == {"<", ">", ":", "\"", "|", "?", "*"}
ValidateFilePath(filePath) ==
  /\ \A i \in 1..Len(filePath) : filePath[i] \notin InvalidChars
  /\ EndsWith(filePath, <<".", "m", "d">>)

\* part_005:72-90   what downloadPage makes of the title of a page: the
\* error it throws, or the path and the name.
ParseTitle(fullTitle) ==
  LET separatorIndex == LastIndexOf(fullTitle, ":")
      filePath == Substring(fullTitle, 0, separatorIndex)
      fileName == SubstringFrom(fullTitle, separatorIndex + 1)
  IN IF fullTitle = <<>>
     THEN [ok |-> FALSE, error |-> "Page has no valid title"]
     ELSE IF separatorIndex = -1
     THEN [ok |-> FALSE,
           error |-> "Page title does not contain path separator"]
     ELSE IF ~ValidateFilePath(filePath)
     THEN [ok |-> FALSE, error |-> "Invalid file path"]
     ELSE [ok |-> TRUE, filePath |-> filePath, fileName |-> fileName]

\* Titles of pages in the remote collection: those uploadSingleFile builds
\* for the documents, and others that users of the remote service type.
RemoteTitles ==
  { <<"n", "o", "t", "i", "t", "l", "e">>,
    <<"a", ".", "m", "d", ":", "b", ":", "c">> }
  \cup {TitleOf(f) : f \in Docs}

\* A user of the remote service adds a page to the collection.
RemoteCreatePage(t, bl) ==
  /\ HasFreePage
  /\ pages' = [pages EXCEPT ![NextPageId] =
                 [created |-> TRUE, archived |-> FALSE, title |-> t,
                  blocks |-> bl]]
  /\ UNCHANGED <<files, unreadable, edits, synced, passState, qvars, call>>

\* A user of the remote service changes the title of a page.
RemoteRetitle(p, t) ==
  /\ edits < MaxEdits
  /\ pages[p].created /\ ~pages[p].archived
  /\ pages[p].title # t
  /\ pages' = [pages EXCEPT ![p].title = t]
  /\ edits' = edits + 1
  /\ UNCHANGED <<files, unreadable, synced, passState, qvars, call>>

\* part_005:98-106   the document downloadPage writes
DownloadedFile(p, filePath, content) ==
  [exists |-> TRUE, hdr |-> TRUE,
   fm |-> [notionID |-> p, contentHash |-> NoHash,
           filePath |-> YamlValue(filePath)],
   body |-> content]

\* The outcomes of downloadPage for page p (part_005:69-147): the title is
\* rejected, getPageBlocks throws, the write throws, or it succeeds.
DownloadOutcomes(p) ==
  IF ~ParseTitle(pages[p].title).ok THEN {"titleFail"}
  ELSE {"fetchFail", "writeFail", "ok"}

\* DownloadService.downloadPage(page, app) (part_005:69-147) for a page
\* that queryDatabase returned.
DownloadPage(p, outcome) ==
  /\ pc = "idle"
  /\ p \in QueryDatabase
  /\ outcome \in DownloadOutcomes(p)
  /\ LET t == ParseTitle(pages[p].title)
         content == NotionBlocksToMarkdown(pages[p].blocks)
     IN /\ files' = IF outcome = "ok"
                    THEN [files EXCEPT
                            ![t.filePath] = DownloadedFile(p, t.filePath, content)]
                    ELSE files
        /\ unreadable' = IF outcome = "ok" THEN unreadable \ {t.filePath}
                         ELSE unreadable
        /\ call' = [fn |-> "downloadPage", page |-> p,
                    title |-> pages[p].title, parsed |-> t,
                    success |-> (outcome = "ok")]
  /\ UNCHANGED <<pages, edits, synced, passState, qvars>>

NextDownload ==
  \/ \E t \in RemoteTitles, bl \in RemoteEdits : RemoteCreatePage(t, bl)
  \/ \E p \in PageIds, t \in RemoteTitles : RemoteRetitle(p, t)
  \/ \E f \in Docs : LocalDelete(f)
  \/ \E p \in PageIds, o \in {"titleFail", "fetchFail", "writeFail", "ok"} :
       DownloadPage(p, o)

\* --------------------------- NotionAPIService.queryDatabase / getPageBlocks
\* Elements of the results array of a response: an id, and whether
\* properties.Name.title is an array.
ResultItems == {[id |-> 1, nameTitle |-> TRUE], [id |-> 2, nameTitle |-> FALSE]}

\* One page of results of the service: at most two elements.
ResultChunks == UNION {[1..n -> ResultItems] : n \in 0..2}

\* What the service holds for a listing: the pages of results it will send.
Listings == UNION {[1..n -> ResultChunks] : n \in 1..MaxChunks}

PagingFns == {"queryDatabase", "getPageBlocks"}
NoCursor == 0              \* cursor undefined; next_cursor null

\* Validator.isValidNotionPage (validator.ts:25-32)
IsValidNotionPage(page) == page.id # NoId /\ page.nameTitle

\* response.json.next_cursor of the request that returned page number i of
\* n: a token for page i + 1, or null after the last page.
NextCursorNull(i, n) == NoCursor
NextCursor(i, n) == IF i < n THEN i ELSE NoCursor

\* upload-service.ts:393 (queryDatabase) and 336 (getPageBlocks): what is
\* added to the accumulated array.
Accepted(fn, jsonResults) ==
  IF fn = "queryDatabase" THEN SelectSeq(jsonResults, IsValidNotionPage)
  ELSE jsonResults

CallRunning == call.fn \in PagingFns /\ call.state = "running"

\* queryDatabase / getPageBlocks up to the do loop
\* (upload-service.ts:379-381, 327-329)
PagingStart(fn, listing) ==
  /\ ~CallRunning
  /\ call' = [fn |-> fn, listing |-> listing, cursor |-> NoCursor,
              all |-> <<>>, requests |-> 0, state |-> "running",
              result |-> <<>>]
  /\ UNCHANGED <<qvars, pvars>>

\* One iteration of the do loop whose request is answered with status 200
\* and a results array (upload-service.ts:383-396, 331-338), and the return
\* when the loop ends (400, 343).
PageRequestOk ==
  /\ CallRunning
  /\ LET i == call.cursor + 1
         all == call.all \o Accepted(call.fn, call.listing[i])
         cursor == NextCursor(i, Len(call.listing))
     IN call' = [call EXCEPT
                   !.all = all,
                   !.cursor = cursor,
                   !.requests = @ + 1,
                   !.state = IF cursor = NoCursor THEN "returned" ELSE @,
                   !.result = IF cursor = NoCursor THEN all ELSE @]
  /\ UNCHANGED <<qvars, pvars>>

\* One iteration whose request throws, or is answered without results
\* (upload-service.ts:397-399, 339-341): the call throws.
PageRequestFail ==
  /\ CallRunning
  /\ call' = [call EXCEPT !.requests = @ + 1, !.state = "thrown"]
  /\ UNCHANGED <<qvars, pvars>>

NextPaging ==
  \/ \E fn \in PagingFns, l \in Listings : PagingStart(fn, l)
  \/ PageRequestOk
  \/ PageRequestFail


\* ------------------------------------------- SyncManager.resolveConflict
\* The answers of ConflictModal (sync-manager.ts:549-571).
Choices == {"local", "notion", "diff", "skip"}

\* The remote data resolveConflict is given (sync-manager.ts:20-23).
NotionDataSet ==
  { [id |-> 1, blocks |-> <<Paragraph(<<"z">>)>>],
    [id |-> 2, blocks |-> <<>>] }

\* sync-manager.ts:139-154   the operation the switch enqueues for a choice
OperationForAnyChoice(choice) == "upload"
OperationFor(choice) ==
  CASE choice = "local" -> "upload"
    [] choice = "notion" -> "download"
    [] OTHER -> "none"

\* sync-manager.ts:141, 144   the data given to queueOperation
DataFor(choice, notionData) ==
  IF choice = "notion" THEN notionData ELSE NoData

Asking == call.fn = "resolveConflict" /\ call.state = "asking"

\* resolveConflict up to the await of the dialog (sync-manager.ts:134-137)
ResolveConflictStart(f, notionData) ==
  /\ ~Asking
  /\ Len(ops) < MaxOps
  /\ call' = [fn |-> "resolveConflict", file |-> f, notionData |-> notionData,
              state |-> "asking", asked |-> 1, choice |-> "none",
              base |-> Len(ops)]
  /\ status' = "conflicts"
  /\ UNCHANGED <<syncQueue, isOnline, syncInProgress, ops, inFlight,
                 netFailCount, offlineBy, pvars>>

\* The dialog answers and the switch runs (sync-manager.ts:137-154).
\* diffOk: showDifferences returns (its vault.read does not throw).
ConflictChoice(choice, diffOk) ==
  /\ Asking
  /\ IF choice = "diff"
     THEN /\ diffOk => call.asked < MaxAsks
          /\ call' = IF diffOk
                     THEN [call EXCEPT !.asked = @ + 1]
                     ELSE [call EXCEPT !.state = "thrown", !.choice = choice]
          /\ status' = IF diffOk THEN "conflicts" ELSE status
          /\ UNCHANGED <<syncQueue, isOnline, syncInProgress, ops, inFlight,
                         netFailCount, offlineBy, pvars>>
     ELSE /\ diffOk
          /\ call' = [call EXCEPT !.state = "done", !.choice = choice]
          /\ IF OperationFor(choice) = "none"
             THEN UNCHANGED <<qvars, pvars>>
             ELSE QueueOperationCall(OperationFor(choice), call.file,
                                     DataFor(choice, call.notionData))

NextConflict ==
  \/ \E f \in Docs, nd \in NotionDataSet : ResolveConflictStart(f, nd)
  \/ \E c \in Choices, ok \in BOOLEAN : ConflictChoice(c, ok)
  \/ \E id \in OpIds : CompleteSuccess(id)
  \/ OnlineSignal
  \/ OfflineSignal


\* ------------------------------------------ NotionAPIService.appendBlocks
\* upload-service.ts:356   const batchSize = 10
AppendBatchSize == 10

\* Array.prototype.slice(start, end) of an array of n elements
SliceInclusive(arr, start, end) ==
  SubSeq(arr, start + 1, IF end + 1 < Len(arr) THEN end + 1 ELSE Len(arr))
Slice(arr, start, end) ==
  SubSeq(arr, start + 1, IF end < Len(arr) THEN end ELSE Len(arr))

\* appendBlocks(parentId, blocks) up to its first request
\* (upload-service.ts:354-358); the blocks are numbered 1..n, sent are the
\* bodies of the requests made, appended is the content of the remote page.
AppendBlocksStart(n) ==
  /\ ~(call.fn = "appendBlocks" /\ call.state = "running")
  /\ call' = [fn |-> "appendBlocks", blocks |-> [k \in 1..n |-> k], i |-> 0,
              sent |-> <<>>, appended |-> <<>>,
              state |-> IF 0 < n THEN "running" ELSE "returned"]
  /\ UNCHANGED <<qvars, pvars>>

\* One iteration of the loop of appendBlocks (upload-service.ts:358-367).
\* outcome: "ok" (status 200), "rejected" (the service refuses the request:
\* makeRequest throws, or the status is not 200), "lost" (the service
\* appends the blocks and the response does not arrive: makeRequest throws).
AppendBlocksRequest(outcome) ==
  /\ call.fn = "appendBlocks"
  /\ call.state = "running"
  /\ LET batch == Slice(call.blocks, call.i, call.i + AppendBatchSize)
         i1 == call.i + AppendBatchSize
     IN call' = [call EXCEPT
                   !.sent = Append(@, batch),
                   !.appended = IF outcome = "rejected" THEN @ ELSE @ \o batch,
                   !.i = IF outcome = "ok" THEN i1 ELSE @,
                   !.state = IF outcome # "ok" THEN "threw"
                             ELSE IF i1 < Len(call.blocks) THEN "running"
                             ELSE "returned"]
  /\ UNCHANGED <<qvars, pvars>>

\* --------------------------------------------- NotionAPIService.createPage
\* What getDatabaseSchema returns: the properties of the collection in the
\* order of the object's keys, each with its name and type.
Schemas ==
  { sch \in UNION {[1..n -> [name : {"Name", "Title", "Topic"},
                             type : {"title", "rich_text"}]] : n \in 0..3} :
      \A i, j \in 1..Len(sch) : sch[i].name = sch[j].name => i = j }

\* upload-service.ts:250-267   the name of the property that gets the title;
\* found: getDatabaseSchema returned (schema is not undefined)
TitlePropertyFirstOfAny(found, sch) ==
  IF found /\ sch # <<>> THEN sch[1].name ELSE "Name"
TitleProperty(found, sch) ==
  LET typed(nm) == found /\ \E i \in 1..Len(sch) :
                              sch[i].name = nm /\ sch[i].type = "title"
      titles == IF found THEN SelectSeq(sch, LAMBDA pr : pr.type = "title")
                ELSE <<>>
  IN IF typed("Name") THEN "Name"
     ELSE IF typed("Title") THEN "Title"
     ELSE IF titles # <<>> THEN titles[1].name
     ELSE "Name"

\* NotionAPIService.createPage (upload-service.ts:238-282); found: the
\* schema lookup succeeded, posted: the POST answered 200 with an id.
CreatePage(found, sch, posted) ==
  /\ ~(call.fn = "appendBlocks" /\ call.state = "running")
  /\ call' = [fn |-> "createPage", found |-> found, schema |-> sch,
              properties |-> {TitleProperty(found, sch)},
              requests |-> <<"GET", "POST">>,
              state |-> IF posted THEN "returned" ELSE "threw"]
  /\ UNCHANGED <<qvars, pvars>>

\* queryDatabase (upload-service.ts:379-401) called after createPage has
\* returned the id of a new page, answered in one response.  The service
\* accepted the POST, so the property that was sent is the title property of
\* the collection, which has one; the page object it lists has one entry of
\* properties per property of the schema, so properties.Name.title is an
\* array exactly when the schema has a property 'Name' of type title.
QueryDatabaseCall ==
  /\ call.fn = "createPage"
  /\ call.state = "returned"
  /\ LET sch == call.schema
         titles == {i \in 1..Len(sch) : sch[i].type = "title"}
         page == [id |-> 1,
                  nameTitle |-> \E i \in titles : sch[i].name = "Name"]
     IN /\ Cardinality(titles) = 1
        /\ \A i \in titles : sch[i].name \in call.properties
        /\ call' = [fn |-> "queryDatabase", schema |-> sch, created |-> page.id,
                    state |-> "returned",
                    result |-> Accepted("queryDatabase", <<page>>)]
  /\ UNCHANGED <<qvars, pvars>>

NextApi ==
  \/ \E n \in 0..MaxAppend : AppendBlocksStart(n)
  \/ \E outcome \in {"ok", "rejected", "lost"} : AppendBlocksRequest(outcome)
  \/ \E found \in BOOLEAN, sch \in Schemas, posted \in BOOLEAN :
       CreatePage(found, sch, posted)
  \/ QueryDatabaseCall


\* ------------------------------------------------- SyncManager.getFileHash
\* ToInt32(a + b) for two 32-bit integers a and b: the sum wrapped to
\* [-2^31, 2^31 - 1], as << and & leave it (sync-manager.ts:401-402).
AddWrap(a, b) ==
  IF a > 0 /\ b > 0 /\ a > 2147483647 - b
  THEN (a - 2147483647 - 1) + (b - 2147483647 - 1)
  ELSE IF a < 0 /\ b < 0 /\ a < (-2147483647 - 1) - b
  THEN (a + 2147483647 + 1) + (b + 2147483647 + 1)
  ELSE a + b

\* SyncManager.simpleHash (sync-manager.ts:398-406):
\*   hash = ((hash << 5) - hash) + char; hash = hash & hash
\* computed on signed 32-bit integers; the decimal string returned is kept
\* as the number it denotes.
RECURSIVE SimpleHashTimes33(_)
SimpleHashTimes33(str) ==
  IF str = <<>> THEN 0
  ELSE LET hash == SimpleHashTimes33(SubSeq(str, 1, Len(str) - 1))
           s1 == AddWrap(hash, hash)
           s2 == AddWrap(s1, s1)
           s3 == AddWrap(s2, s2)
           s4 == AddWrap(s3, s3)
           shifted == AddWrap(s4, s4)
       IN AddWrap(AddWrap(shifted, hash), CharCode(str[Len(str)]))

RECURSIVE SimpleHash(_)
SimpleHash(str) ==
  IF str = <<>> THEN 0
  ELSE LET hash == SimpleHash(SubSeq(str, 1, Len(str) - 1))
           s1 == AddWrap(hash, hash)
           s2 == AddWrap(s1, s1)
           s3 == AddWrap(s2, s2)
           s4 == AddWrap(s3, s3)
           shifted == AddWrap(s4, s4)
           minus == IF hash = -2147483647 - 1 THEN hash ELSE 0 - hash
       IN AddWrap(AddWrap(shifted, minus), CharCode(str[Len(str)]))

\* The match of /^---\s*\n([\s\S]*?)\n---\s*\n([\s\S]*)$/ in
\* parseMarkdownWithFrontmatter (part_004:200-201) on a text of characters:
\* a is the place of the newline that ends the opening line, b the place of
\* the newline before the closing ---, c the place of the newline that ends
\* the closing line; \s* is greedy (largest a, largest c), the first group is
\* lazy (smallest b).  Without a match the content is the whole text.
MatchFrontmatter(markdown) ==
  LET n == Len(markdown)
      ws(i, j) == \A k \in i..j : markdown[k] \in {" ", "\n", "\t"}
      Cs(b) == {c \in (b + 4)..n : markdown[c] = "\n" /\ ws(b + 4, c - 1)}
      Bs(a) == {b \in (a + 1)..(n - 3) :
                  /\ SubSeq(markdown, b, b + 3) = <<"\n", "-", "-", "-">>
                  /\ Cs(b) # {}}
      As == {a \in 4..n : /\ SubSeq(markdown, 1, 3) = <<"-", "-", "-">>
                          /\ markdown[a] = "\n" /\ ws(4, a - 1)
                          /\ Bs(a) # {}}
  IN IF As = {} THEN [matched |-> FALSE, yaml |-> <<>>, content |-> markdown]
     ELSE LET a == CHOOSE x \in As : \A y \in As : y <= x
              b == CHOOSE x \in Bs(a) : \A y \in Bs(a) : x <= y
              c == CHOOSE x \in Cs(b) : \A y \in Cs(b) : y <= x
          IN [matched |-> TRUE, yaml |-> SubSeq(markdown, a + 1, b - 1),
              content |-> SubSeq(markdown, c + 1, n)]

\* SyncManager.getFileHash (sync-manager.ts:392-396) for the document whose
\* metadata header (as stringifyYaml wrote it between the two --- lines) is
\* h, <<>> for a document without header, after the user typed the
\* character c at the end of its text; plugin is what calculateContentHash
\* returns for the same content (styles.css:829-838).
GetFileHash(h, c) ==
  /\ LET body == IF call.fn = "getFileHash" /\ call.header = h
                 THEN call.body \o <<c>> ELSE <<c>>
         markdown == IF h = <<>> THEN body
                     ELSE <<"-", "-", "-", "\n">> \o h
                            \o <<"\n", "-", "-", "-", "\n">> \o body
         content == MatchFrontmatter(markdown).content
     IN /\ Len(body) <= MaxBody
        /\ call' = [fn |-> "getFileHash", header |-> h, body |-> body,
                    markdown |-> markdown,
                    result |-> SimpleHash(content),
                    plugin |-> CalculateContentHash(content)]
  /\ UNCHANGED <<qvars, pvars>>

NextHash ==
  \E h \in {<<>>, <<"i", "d", ":", "1">>, <<"i", "d", ":", "2">>},
     c \in {"x", "\n", "-"} : GetFileHash(h, c)

\* ------------------------------ uploadSingleFile, one await after another
\* uploadSingleFile(f) from its first line to the call of updateFileMetadata
\* (styles.css:709-745): the document is read and parsed, the blocks are
\* built from what was read and sent to the remote page.  outcome names the
\* call that throws, if any; the function then returns its failure (751-759).
\* The caller selected f with filterFilesForUpload (styles.css:662, 675-677);
\* synced records the text from which the page was last written in full.
UploadSingleFileStart(f, outcome) ==
  /\ ~(call.fn = "uploadSingleFile" /\ call.state = "updateFileMetadata")
  /\ SelectedForUpload(f)
  /\ outcome \in UploadOutcomes(f) \ {"metaFail"}
  /\ LET parsed == ParseMarkdownWithFrontmatter(files[f])
         old == parsed.frontmatter.notionID
         id == IF old # NoId THEN old
               ELSE IF HasFreePage THEN NextPageId ELSE NoId
         blocks == MarkdownToNotionBlocks(parsed.content)
     IN /\ pages' = IF outcome \in {"readFail", "createFail", "updateFail"}
                    THEN pages
                    ELSE [pages EXCEPT
                            ![id] = PageAfterUpload(f, id, blocks, outcome)]
        /\ call' = [fn |-> "uploadSingleFile", file |-> f, notionId |-> id,
                    read |-> parsed.content,
                    state |-> IF outcome = "ok" THEN "updateFileMetadata"
                              ELSE "returned",
                    success |-> FALSE]
        /\ synced' = IF outcome = "ok"
                     THEN [synced EXCEPT ![f] = [local |-> parsed.content,
                                                 remote |-> blocks]]
                     ELSE synced
  /\ UNCHANGED <<files, unreadable, edits, passState, qvars>>

\* updateFileMetadata(file, notionId, frontmatter) and the return of
\* uploadSingleFile (styles.css:764-791, 745-750): the document is read
\* again and written back with its header; an error of the read or of the
\* write (written = FALSE) is caught and logged.
UpdateFileMetadata(written) ==
  /\ call.fn = "uploadSingleFile"
  /\ call.state = "updateFileMetadata"
  /\ files' = IF written /\ Readable(call.file)
              THEN [files EXCEPT
                      ![call.file] = FileWithMetadata(call.file, call.notionId)]
              ELSE files
  /\ call' = [call EXCEPT !.state = "returned", !.success = TRUE]
  /\ UNCHANGED <<unreadable, pages, edits, synced, passState, qvars>>

\* The user keeps editing while documents are uploaded one at a time.
NextRace ==
  \/ \E f \in Docs, outcome \in {"ok", "readFail", "createFail", "updateFail",
                                  "clearFail", "appendFail"} :
       UploadSingleFileStart(f, outcome)
  \/ \E written \in BOOLEAN : UpdateFileMetadata(written)
  \/ \E f \in Docs : \E b \in Bodies \cup {InitialBody(f)} : LocalEdit(f, b)
  \/ \E f \in Docs : ToggleReadable(f)

\* --------------------------------------------------------- specifications
SpecQueue == Init /\ [][NextQueue]_vars

\* Every executeOperation that processQueue awaits (sync-manager.ts:200)
\* settles, because the calls it awaits return or throw, and the event loop
\* then runs the continuation of the await.
SpecLive ==
  /\ Init
  /\ [][NextLive]_vars
  /\ \A id \in OpIds :
       WF_vars(\/ CompleteSuccess(id)
               \/ \E e \in Errors \ NetworkClassified :
                    ExecuteOperationThrows(id, e))
SpecSync == Init /\ [][NextSync]_vars
SpecBurst == Init /\ [][NextBurst]_vars
SpecRender == Init /\ [][NextRender]_vars
SpecNested == Init /\ [][NextNested]_vars
SpecCodec == Init /\ [][NextCodec]_vars
SpecApi == Init /\ [][NextApi]_vars
SpecHash == Init /\ [][NextHash]_vars
SpecRace == Init /\ [][NextRace]_vars
SpecDownload == Init /\ [][NextDownload]_vars
SpecPaging == Init /\ [][NextPaging]_vars
SpecConflict == Init /\ [][NextConflict]_vars

\* ------------------------------------------------------------ queue claims
OpsCreated == 1..Len(ops)

\* C1: an operation all of whose executions failed with a non-network error
\* is executed at most 3 times, its retry counter never exceeds 3, after the
\* third failure it is neither queued nor executing, and the terminal
\* failure is reported exactly once.
C1_RetryBudget ==
  \A id \in OpsCreated :
    (~ops[id].netFailed /\ ops[id].state # "succeeded") =>
      /\ ops[id].retries <= 3
      /\ ops[id].execs <= 3
      /\ ops[id].retries < 3 => ops[id].reports = 0
      /\ ops[id].retries = 3 =>
           /\ ops[id].state = "dropped"
           /\ ops[id].reports = 1
           /\ ops[id].execs = 3
           /\ id \notin SeqToSet(syncQueue)
           /\ id \notin inFlight

C1_Witness ==
  \E id \in OpsCreated :
    /\ ~ops[id].netFailed
    /\ ops[id].state = "dropped"
    /\ ops[id].execs = 3
    /\ ops[id].reports = 1

\* C2: a step in which an operation fails with a network-class error puts
\* that operation at the front of the queue, clears isOnline and starts
\* nothing; while isOnline is false only onlineHandler starts an operation,
\* and only onlineHandler sets isOnline again.
C2_NetworkFailureHalts ==
  [][ /\ (netFailCount' = netFailCount + 1) =>
           \E id \in inFlight \ inFlight' :
             /\ Len(syncQueue') > 0
             /\ Head(syncQueue') = id
             /\ isOnline' = FALSE
             /\ inFlight' \subseteq inFlight
      /\ (~isOnline /\ inFlight' \ inFlight # {}) => OnlineSignal
      /\ (~isOnline /\ isOnline') => OnlineSignal
    ]_vars

C2_Witness ==
  /\ ~isOnline
  /\ offlineBy # NoOp
  /\ Len(syncQueue) >= 2
  /\ Head(syncQueue) = offlineBy
  /\ inFlight = {}

\* C3: when the connectivity signal arrives after a network-class failure of
\* an operation has switched the queue Offline, the operation the queue
\* starts is that operation.
C3_ResumesFromFailedOperation ==
  [][ (offlineBy # NoOp /\ OnlineSignal) =>
        inFlight' \ inFlight = {offlineBy} ]_vars

\* C4: no two operations on the same document path are executing at the
\* same time.
C4_OnePerPathInFlight ==
  \A a \in inFlight, b \in inFlight :
    a # b => ops[a].file # ops[b].file

\* C5: of two operations on the same path, the later enqueued one has not
\* succeeded while the earlier one is still waiting or executing.
C5_PerPathEnqueueOrder ==
  \A a \in OpsCreated, b \in OpsCreated :
    (a < b /\ ops[a].file = ops[b].file /\ ops[b].state = "succeeded") =>
      ops[a].state \in {"succeeded", "dropped"}

\* ------------------------------------------------------------- pass claims
PassStep ==
  \/ \E q \in BOOLEAN, af \in SUBSET PageIds : CleanupDeletedFiles(q, af)
  \/ FilterFilesForUpload
  \/ UploadStep
  \/ \E ff \in SUBSET PageIds : FilterFilesForDownload(ff)
  \/ \E c \in BOOLEAN : ConfirmPull(c)
  \/ PullStep

SelectedFiles(sel) == {sel[k].file : k \in 1..Len(sel)}

LocalChanged(f) == files[f].body # synced[f].local
RemoteChanged(f) == pages[BoundId(f)].blocks # synced[f].remote
InConflict(f) ==
  BoundId(f) # NoId /\ LocalChanged(f) /\ RemoteChanged(f)

\* C6: for a bound document whose local text and remote content both
\* changed since the last sync, a step of the upload pass leaves the remote
\* content as it is and a step of the pull pass leaves the local text as it
\* is (the passes never call the Conflict Resolver).
C6_ConflictNotOverwritten ==
  [][ \A f \in Docs :
        InConflict(f) =>
          /\ UploadStep => pages'[BoundId(f)].blocks = pages[BoundId(f)].blocks
          /\ PullStep => files'[f].body = files[f].body ]_vars

\* an existing local document carries the remote id p
Referenced(p) ==
  \E f \in Docs : files[f].exists /\ files[f].hdr /\ files[f].fm.notionID = p

\* C7: in the cleanup of an upload pass, every page returned by the query
\* that no local document references gets exactly one archive request, and
\* a page that a local document references gets none and is not archived.
C7_OrphansArchivedOnce ==
  [][ (pc = "idle" /\ pc' = "filter") =>
        \A p \in queried' :
          /\ ~Referenced(p) => archiveCalls'[p] = 1
          /\ Referenced(p) => archiveCalls'[p] = 0 /\ ~pages'[p].archived
    ]_vars

\* C8: a step of a pass changes neither the text of a document that cannot
\* be read nor the remote page bound to it.
C8_UnreadableLeftUntouched ==
  [][ \A f \in unreadable :
        PassStep =>
          /\ files'[f] = files[f]
          /\ BoundId(f) # NoId => pages'[BoundId(f)] = pages[BoundId(f)]
    ]_vars

\* C9: no selected document is attempted twice, and when a pass has run to
\* its end every selected document was attempted exactly once, successful +
\* failed is the number of selected documents and one error is recorded per
\* failed document.
C9_PassCountsEveryDocument ==
  /\ \A f \in Docs : attempts[f] <= 1
  /\ (pc = "idle" /\ tally.outcome = "completed") =>
       /\ done = 1..Len(selected)
       /\ \A f \in SelectedFiles(selected) : attempts[f] = 1
       /\ tally.successful + tally.failed = Len(selected)
       /\ tally.errors = tally.failed
       /\ tally.failed =
            Cardinality({k \in DOMAIN results : results[k] = "fail"})

C9_Witness ==
  /\ pc = "idle"
  /\ tally.outcome = "completed"
  /\ Len(selected) = 2
  /\ results[1] = "fail"
  /\ results[2] = "ok"

\* stored contentHash = hash of the body, stored filePath = current path
UpToDate(f) ==
  /\ files[f].exists
  /\ LET p == ParseMarkdownWithFrontmatter(files[f])
     IN /\ p.frontmatter.contentHash = CalculateContentHash(p.content)
        /\ p.frontmatter.filePath = f

\* C10: the filter of the upload pass does not select a document whose
\* stored contentHash and filePath match its body and path, and the pass
\* uploads only documents the filter selected.
C10_UpToDateSkipped ==
  [][ /\ FilterFilesForUpload =>
           \A f \in Docs : UpToDate(f) => f \notin SelectedFiles(selected')
      /\ UploadStep =>
           \A f \in Docs :
             attempts'[f] > attempts[f] => f \in SelectedFiles(selected)
    ]_vars

C10_Witness ==
  /\ pc = "upload"
  /\ done = {}
  /\ \E f \in Docs :
       /\ UpToDate(f)
       /\ Readable(f)
       /\ f \notin SelectedFiles(selected)
       /\ attempts[f] = 0

\* the header of f, as a pass reads it, holds no remote id
Unbound(f) == ParseMarkdownWithFrontmatter(files[f]).frontmatter.notionID = NoId

\* the pages a step creates
CreatedBy == {p \in PageIds : ~pages[p].created /\ pages'[p].created}

\* C11: the filter of the upload pass selects every readable document whose
\* header holds no remote id; the upload of such a document changes no
\* existing page and, when it succeeds, creates one page titled
\* "<path>:<basename>"; the upload of a document whose header holds a
\* remote id creates no page.
C11_UnboundCreatesNewPage ==
  [][ /\ FilterFilesForUpload =>
           \A f \in Docs :
             (Readable(f) /\ Unbound(f)) => f \in SelectedFiles(selected')
      /\ UploadStep =>
           \A k \in done' \ done :
             LET f == selected[k].file
             IN /\ (Readable(f) /\ Unbound(f)) =>
                     /\ \A p \in PageIds :
                          pages[p].created => pages'[p] = pages[p]
                     /\ results'[k] = "ok" =>
                          \E p \in PageIds :
                            /\ CreatedBy = {p}
                            /\ pages'[p].title = f \o <<":">> \o Basename(f)
                /\ (Readable(f) /\ ~Unbound(f)) => CreatedBy = {}
    ]_vars

C11_Witness ==
  /\ passes = 2
  /\ \E f \in Docs, g \in Docs :
       /\ f # g
       /\ BoundId(f) # NoId
       /\ pages[BoundId(f)].title = f \o <<":">> \o Basename(f)
       /\ attempts[f] = 1
       /\ ~files[g].hdr
       /\ \E p \in PageIds : pages[p].created /\ p # BoundId(f)
                               /\ pages[p].title = g \o <<":">> \o Basename(g)

C13_ApiFailureCounted ==
  [][ \A id \in inFlight, c \in StatusCodes, m \in ServiceMessages :
        ExecuteOperationThrows(id, ApiError(c, m)) =>
          /\ ops'[id].retries = ops[id].retries + 1
          /\ isOnline' = isOnline ]_vars

\* C14: the number of operations executing at the same time never exceeds
\* the batch size.
C14_AtMostBatchSizeExecuting == Cardinality(inFlight) <= BatchSize

\* number of places of the queue that hold operation id
TimesQueued(q, id) == Cardinality({i \in 1..Len(q) : q[i] = id})

\* where operation id is: waiting in the queue (once), executing,
\* succeeded, or dropped after 3 counted failures
Accounted(q, fl, o, id) ==
  /\ o[id].state \in {"queued", "executing", "succeeded", "dropped"}
  /\ TimesQueued(q, id) = (IF o[id].state = "queued" THEN 1 ELSE 0)
  /\ (id \in fl) <=> (o[id].state = "executing")
  /\ o[id].state = "dropped" => o[id].retries = MaxRetries
  /\ o[id].state = "succeeded" => o[id].execs >= 1

RECURSIVE RunNumber(_, _)
RunNumber(blocks, i) ==
  IF i = 0 \/ blocks[i].type # "numbered_list_item" THEN 0
  ELSE 1 + RunNumber(blocks, i - 1)

\* the line of a block whose number in its run is n
RECURSIVE LinesWithRunNumbers(_, _)
LinesWithRunNumbers(blocks, i) ==
  IF i > Len(blocks) THEN <<>>
  ELSE (IF blocks[i].type = "numbered_list_item"
        THEN NumberToString(RunNumber(blocks, i)) \o <<".", " ">>
        ELSE IF blocks[i].type = "bulleted_list_item" THEN <<"-", " ">>
        ELSE <<>>)
       \o blocks[i].text \o <<"\n">> \o LinesWithRunNumbers(blocks, i + 1)

\* C16: in the markup rendered for a list of blocks every numbered item
\* carries its position in its contiguous run of numbered items, so the
\* number restarts at 1 after a block that is not a numbered item.
C16_NumberingResetsPerRun ==
  call.fn = "notionBlocksToMarkdown" =>
    call.result = LinesWithRunNumbers(call.blocks, 1)

HasColon(str) == \E i \in 1..Len(str) : str[i] = ":"

\* C17: downloadPage splits the title of the page at its last colon; for the
\* title "<path>:<basename>" that upload builds for a document it obtains
\* that path and that basename; for a title without a colon it fails and
\* leaves the Local Store as it was.
C17_TitleSplitAtLastColon ==
  [][ \A p \in PageIds, o \in {"titleFail", "fetchFail", "writeFail", "ok"} :
        DownloadPage(p, o) =>
          LET t == pages[p].title
              r == call'.parsed
          IN /\ \A f \in Docs :
                  t = f \o <<":">> \o Basename(f) =>
                    r.ok /\ r.filePath = f /\ r.fileName = Basename(f)
             /\ r.ok => /\ t = r.filePath \o <<":">> \o r.fileName
                        /\ ~HasColon(r.fileName)
             /\ ~HasColon(t) =>
                  ~r.ok /\ ~call'.success /\ files' = files
    ]_vars

C17_Witness ==
  /\ call.fn = "downloadPage"
  /\ ~HasColon(call.title)
  /\ ~call.success
  /\ \E f \in Docs :
       /\ files[f].hdr
       /\ files[f].fm.notionID # call.page
       /\ pages[files[f].fm.notionID].title = f \o <<":">> \o Basename(f)

\* the results of all the pages of a listing, one after the other
RECURSIVE Flatten(_)
Flatten(chunks) ==
  IF chunks = <<>> THEN <<>> ELSE Head(chunks) \o Flatten(Tail(chunks))

\* C18: queryDatabase and getPageBlocks request every page of the listing
\* once and return the results of all pages in page order (queryDatabase:
\* those that pass isValidNotionPage); a call in which a request failed
\* returns nothing, and nothing is returned before the last page.
C18_PagingReturnsAllPages ==
  call.fn \in PagingFns =>
    /\ call.state = "returned" =>
         /\ call.requests = Len(call.listing)
         /\ call.fn = "getPageBlocks" => call.result = Flatten(call.listing)
         /\ call.fn = "queryDatabase" =>
              call.result = SelectSeq(Flatten(call.listing),
                                      LAMBDA x : x.id # NoId /\ x.nameTitle)
    /\ call.state # "returned" => call.result = <<>>

C18_Witness ==
  /\ call.fn = "queryDatabase"
  /\ call.state = "returned"
  /\ Len(call.listing) = 2
  /\ Len(call.result) = 2
  /\ Len(Flatten(call.listing)) = 4
  /\ call.result[1] \in SeqToSet(call.listing[1])
  /\ call.result[2] \in SeqToSet(call.listing[2])

\* C19: a call of resolveConflict has enqueued nothing while it waits for an
\* answer; after the answer keep-local it has enqueued one upload of the
\* document, after keep-remote one download of the document that carries
\* the remote data it was given, after skip nothing; an inspect answer
\* enqueues nothing and the dialog asks again.
C19_ResolverEnqueuesAtMostOne ==
  [][ /\ (call'.fn = "resolveConflict" /\ call' # call) =>
           LET n == Len(ops') - call'.base
               last == ops'[Len(ops')]
           IN /\ n <= 1
              /\ call'.state = "asking" => n = 0
              /\ call'.state = "thrown" => n = 0
              /\ (call'.state = "done" /\ call'.choice = "skip") => n = 0
              /\ (call'.state = "done" /\ call'.choice = "local") =>
                   /\ n = 1
                   /\ last.type = "upload"
                   /\ last.file = call'.file
              /\ (call'.state = "done" /\ call'.choice = "notion") =>
                   /\ n = 1
                   /\ last.type = "download"
                   /\ last.file = call'.file
                   /\ last.data = call'.notionData
      /\ \A ok \in BOOLEAN :
           ConflictChoice("diff", ok) =>
             /\ Len(ops') = Len(ops)
             /\ ok => call'.state = "asking" /\ call'.asked = call.asked + 1
    ]_vars

C19_Witness ==
  /\ call.fn = "resolveConflict"
  /\ call.state = "done"
  /\ call.choice = "notion"
  /\ call.asked = 2
  /\ Len(ops) = call.base + 1
  /\ ops[Len(ops)].type = "download"
  /\ ops[Len(ops)].data = call.notionData
  /\ ops[Len(ops)].data.id # 0

C21_StoppedWithQueueIsOffline ==
  [][ (Cardinality(inFlight') < Cardinality(inFlight) /\ syncQueue' # <<>>)
        => status' = "offline" ]_vars

\* C22: a step of a pull pass (selecting the documents, the confirmation,
\* writing one document) leaves the remote collection as it was: no page is
\* created, retitled, emptied, extended or archived, and deletePage is not
\* called (the count of its calls, which starts again with each pass, does
\* not grow for any page).
C22_PullLeavesRemoteUntouched ==
  [][ ( \/ \E ff \in SUBSET PageIds : FilterFilesForDownload(ff)
        \/ \E c \in BOOLEAN : ConfirmPull(c)
        \/ PullStep )
      => ( /\ pages' = pages
           /\ \A p \in PageIds : archiveCalls'[p] <= archiveCalls[p] ) ]_vars

\* a pull pass has written a document while the remote collection holds a
\* page that no document refers to; the page is still there
C22_Witness ==
  /\ tally.kind = "pull"
  /\ tally.outcome = "completed"
  /\ tally.successful >= 1
  /\ \E p \in PageIds :
       pages[p].created /\ ~pages[p].archived /\ ~Referenced(p)

\* C23: in the markup returned for a page, every list item that has children
\* is followed immediately by the rendering of its children one indent level
\* deeper.
C23_ChildrenOfListItemsRendered ==
  (call.fn = "notionBlocksToMarkdown" /\
   \A i \in 1..Len(call.blocks) : "children" \in DOMAIN call.blocks[i])
  => \A i \in 1..Len(call.blocks) :
       LET b == call.blocks[i]
           marker == IF b.type = "numbered_list_item"
                     THEN {NumberToString(n) \o <<".", " ">> : n \in 1..9}
                     ELSE {<<"-", " ">>}
           kids == BlocksToMarkdownFrom(b.children, 1, <<>>).markdown
       IN b.has_children =>
            \E m \in marker :
              Includes(call.result, m \o b.text \o <<"\n">> \o kids)

\* C24: the markup of a single block of a supported type determines the
\* block: no other block that differs from it in type, text or annotation
\* flags has the same markup, so that converting the markup back can yield
\* a block of the same type with the same text and flags.
C24_MarkupDeterminesBlock ==
  (call.fn = "notionBlocksToMarkdown" /\
   call.blocks \in {<<B>> : B \in RichBlocks}) =>
    \A B \in RichBlocks :
      NotionBlocksToMarkdown(<<B>>) = call.result => <<B>> = call.blocks

\* what C25 says of a call c of appendBlocks
AppendedInBatches(c) ==
  LET n == Len(c.blocks)
      k == Len(c.sent)
      all == Flatten(c.sent)
  IN /\ \A j \in 1..k : Len(c.sent[j]) \in 1..AppendBatchSize
     /\ Len(all) <= n /\ all = SubSeq(c.blocks, 1, Len(all))
     /\ c.state = "running" => (Len(all) = AppendBatchSize * k /\ c.appended = all)
     /\ c.state = "returned" =>
          /\ all = c.blocks
          /\ c.appended = c.blocks
          /\ k = (n + AppendBatchSize - 1) \div AppendBatchSize
     /\ c.state = "threw" =>
          /\ k >= 1
          /\ Len(all) < n => Len(all) = AppendBatchSize * k
          /\ c.appended \in {Flatten(SubSeq(c.sent, 1, k - 1)), all}

\* C25: appendBlocks sends the blocks in order, each once, in consecutive
\* requests of at most 10 blocks (ceil(n/10) requests when all succeed, none
\* for n = 0); when a request fails the blocks of the requests before it are
\* on the page, the call throws and sends nothing more.
C25_AppendBlocksInBatches ==
  [][ call'.fn = "appendBlocks" =>
        /\ AppendedInBatches(call')
        /\ (call.fn = "appendBlocks" /\ call.state # "running")
             => call'.sent = <<>> ]_vars

\* 25 blocks: two requests of 10 succeeded, the third (5 blocks) failed
C25_Witness ==
  /\ call.fn = "appendBlocks"
  /\ call.state = "threw"
  /\ Len(call.blocks) = 25
  /\ Len(call.sent) = 3
  /\ Len(call.sent[3]) = 5
  /\ Len(call.appended) = 20

\* C26: createPage sends the title in exactly one property: 'Name' when the
\* schema has it with type title, else 'Title' when the schema has it with
\* type title, else a property of type title of the schema, else 'Name';
\* when the schema lookup failed the page is still posted, with 'Name'.
C26_TitlePropertyFromSchema ==
  call.fn = "createPage" =>
    LET sch == call.schema
        has(nm) == \E i \in 1..Len(sch) :
                     sch[i].name = nm /\ sch[i].type = "title"
        anyTitle == {sch[i].name : i \in {j \in 1..Len(sch) :
                                           sch[j].type = "title"}}
    IN /\ Cardinality(call.properties) = 1
       /\ call.requests[Len(call.requests)] = "POST"
       /\ \A nm \in call.properties :
            IF ~call.found THEN nm = "Name"
            ELSE IF has("Name") THEN nm = "Name"
            ELSE IF has("Title") THEN nm = "Title"
            ELSE IF anyTitle # {} THEN nm \in anyTitle
            ELSE nm = "Name"

\* the schema names its title property 'Topic', after a text property
C26_Witness ==
  /\ call.fn = "createPage"
  /\ call.found
  /\ call.state = "returned"
  /\ call.schema = <<[name |-> "Name", type |-> "rich_text"],
                     [name |-> "Topic", type |-> "title"]>>
  /\ call.properties = {"Topic"}

\* the types blockToMarkdown has a case for
KnownTypes ==
  {"paragraph", "heading_1", "heading_2", "heading_3", "bulleted_list_item",
   "numbered_list_item", "code", "quote", "divider", "table", "image", "to_do"}

\* the text that the blocks after the first i-1 add to the markup
PieceAt(blocks, i) ==
  LET before == NotionBlocksToMarkdown(SubSeq(blocks, 1, i - 1))
      upto == NotionBlocksToMarkdown(SubSeq(blocks, 1, i))
  IN SubSeq(upto, Len(before) + 1, Len(upto))

\* C27: notionBlocksToMarkdown returns a text for every list of blocks; the
\* text of the first i blocks extends the text of the first i-1; a block
\* whose rendering raises an error adds one line naming its type; a block of
\* unknown type adds its rich text as a line, or nothing; every other block
\* adds what it adds in the list without the unknown and the raising blocks.
C27_ConversionIsTotal ==
  (call.fn = "notionBlocksToMarkdown" /\
   \A i \in 1..Len(call.blocks) : call.blocks[i] \in OddKinds) =>
    LET blocks == call.blocks
        plain(b) == b.type \in KnownTypes /\ "rich_text" \notin DOMAIN b
        kept(i) == SelectSeq(SubSeq(blocks, 1, i), plain)
    IN /\ call.result = NotionBlocksToMarkdown(blocks)
       /\ \A i \in 1..Len(blocks) :
            LET b == blocks[i]
                before == NotionBlocksToMarkdown(SubSeq(blocks, 1, i - 1))
                upto == NotionBlocksToMarkdown(SubSeq(blocks, 1, i))
            IN /\ SubSeq(upto, 1, Len(before)) = before
               /\ IF "rich_text" \in DOMAIN b
                  THEN PieceAt(blocks, i) =
                         <<"[Error converting block of type: ", b.type, "]",
                           "\n">>
                  ELSE IF b.type \notin KnownTypes
                  THEN PieceAt(blocks, i) =
                         (IF b.text = <<>> THEN <<>> ELSE b.text \o <<"\n">>)
                  ELSE PieceAt(blocks, i) = PieceAt(kept(i), Len(kept(i)))

\* a page with a block of unknown type, a block that raises, and numbered
\* items around them
C27_Witness ==
  /\ call.fn = "notionBlocksToMarkdown"
  /\ call.blocks = <<NumberedListItem(<<"x">>),
                     [type |-> "callout", text |-> <<"u">>],
                     [type |-> "paragraph", text |-> <<>>,
                      rich_text |-> <<[null |-> TRUE]>>],
                     NumberedListItem(<<"x">>)>>
  /\ call.result = <<"1", ".", " ", "x", "\n", "u", "\n",
                     "[Error converting block of type: ", "paragraph", "]",
                     "\n", "2", ".", " ", "x", "\n">>

\* the signed 32-bit number that the halves <<high, low>> denote
Signed(h) == (IF h[1] >= Half \div 2 THEN h[1] - Half ELSE h[1]) * Half + h[2]

\* C28: the hash of a document is the value of h := 31*h + c iterated over
\* the characters of its body from 0, wrapped to 32 bits; simpleHash and
\* calculateContentHash agree on it; it is a 32-bit value; and the same body
\* under another metadata header has the same hash.
C28_HashOfBodyOnly ==
  (call.fn = "getFileHash" /\ call.header # <<>>) =>
    LET under(h) == <<"-", "-", "-", "\n">> \o h
                      \o <<"\n", "-", "-", "-", "\n">> \o call.body
        other == <<"l", "i", "n", "k", ":", "7", "\n", "i", "d", ":", "3">>
    IN /\ call.result = Signed(call.plugin)
       /\ call.plugin \in (0..(Half - 1)) \X (0..(Half - 1))
       /\ call.plugin = HashFrom(<<0, 0>>, StripLeadingBlank(call.body))
       /\ call.markdown = under(call.header)
       /\ SimpleHash(MatchFrontmatter(under(other)).content) = call.result

\* a body of seven characters whose hash has wrapped around to a negative
\* number, in a document with a header
C28_Witness ==
  /\ call.fn = "getFileHash"
  /\ call.header = <<"i", "d", ":", "2">>
  /\ Len(call.body) = 7
  /\ call.body[1] = "x"
  /\ call.result < 0

\* C29: a step that ends with the connectivity flag false starts no
\* operation: nothing is added to the executing operations and no execution
\* is counted; the queue keeps its operations in their order, an operation
\* enqueued in the step goes to its end, and an operation that failed on the
\* network in the step goes to its front.
C29_NothingStartsWhileOffline ==
  [][ ~isOnline' =>
        /\ inFlight' \subseteq inFlight
        /\ \A id \in 1..Len(ops) : ops'[id].execs = ops[id].execs
        /\ \A id \in (1..Len(ops')) \ (1..Len(ops)) :
             ops'[id].execs = 0 /\ syncQueue' = Append(syncQueue, id)
        /\ \E pre, post \in {<<>>} \cup {<<id>> : id \in OpIds} :
             syncQueue' = pre \o syncQueue \o post
        /\ \A id \in inFlight \ inFlight' :
             (ops'[id].state = "queued" /\ ops'[id].retries = ops[id].retries)
               => syncQueue' = <<id>> \o syncQueue
    ]_vars

\* offline, with the operation that failed on the network at the front of
\* the queue and an operation enqueued afterwards behind it, never started
C29_Witness ==
  /\ ~isOnline
  /\ inFlight = {}
  /\ syncQueue = <<1, 2>>
  /\ ops[1].netFailed
  /\ ops[1].execs = 1
  /\ ops[2].execs = 0
  /\ offlineBy = 1

\* C30: whenever a bound document's stored contentHash is the hash of its
\* current body and no upload of it is under way, the last content uploaded
\* to its remote page was made from that body: a change made while the
\* document was being uploaded is not taken for uploaded.
C30_EditDuringUploadNotLost ==
  \A f \in Docs :
    LET parsed == ParseMarkdownWithFrontmatter(files[f])
    IN ( /\ Readable(f)
         /\ BoundId(f) # NoId
         /\ ~(call.fn = "uploadSingleFile" /\ call.file = f
                /\ call.state = "updateFileMetadata")
         /\ parsed.frontmatter.contentHash =
              CalculateContentHash(parsed.content) )
       => synced[f].local = parsed.content

\* the pages of the collection, not archived, that were created or retitled
\* for document f (their title is the one uploadSingleFile gives, line 721)
PagesOf(f) ==
  {p \in PageIds : pages[p].created /\ ~pages[p].archived
                     /\ pages[p].title = TitleOf(f)}

\* C31: at any moment of any sequence of upload passes, no document has more
\* than one remote page, not archived, that was created for it.
C31_OnePagePerDocument ==
  \A f \in Docs : Cardinality(PagesOf(f)) <= 1

\* C32: a page that createPage created in a collection is in the result of
\* a later queryDatabase of that collection, whatever the name of the
\* collection's title property.
C32_CreatedPageIsListed ==
  (call.fn = "queryDatabase" /\ "created" \in DOMAIN call
     /\ call.state = "returned")
  => \E i \in 1..Len(call.result) : call.result[i].id = call.created

\* C33: after an upload pass in which every upload succeeded and wrote its
\* header, with no change made from outside, a second upload pass has nothing
\* to do: no document is selected by filterFilesForUpload and no page is
\* archived by cleanupDeletedFiles.
C33_UploadPassIdempotent ==
  ( /\ pc = "idle"
    /\ tally.kind = "upload"
    /\ tally.outcome = "completed"
    /\ tally.failed = 0
    /\ edits = 0
    /\ \A f \in Docs : files[f].hdr )
  => /\ \A f \in Docs : ~SelectedForUpload(f)
     /\ PagesToDelete(QueryDatabase, CurrentNotionIds) = {}

\* C34: a document that was synced (uploaded with its header written, or
\* replaced by a confirmed pull) and has not changed since on either side is
\* not selected by filterFilesForDownload.
C34_SyncedNotSelectedForDownload ==
  \A f \in Docs :
    LET parsed == ParseMarkdownWithFrontmatter(files[f])
    IN ( /\ Readable(f)
         /\ BoundId(f) # NoId
         /\ parsed.frontmatter.contentHash =
              CalculateContentHash(parsed.content)
         /\ ~LocalChanged(f)
         /\ ~RemoteChanged(f) )
       => ~SelectedForDownload(f, {})

\* C35: an upload in which a remote call fails (page creation, title update,
\* clearing of the children, append of the blocks) leaves every document as
\* it was, text and header, and a document that the filter selects before
\* the upload is selected after it.
C35_FailedUploadLeavesDocument ==
  [][ \A k \in 1..Cardinality(Docs) :
        (\E o \in {"createFail", "updateFail", "clearFail", "appendFail"} :
           UploadSingleFile(k, o))
        => /\ files' = files
           /\ SelectedForUpload(selected[k].file)
                => SelectedForUpload(selected[k].file)' ]_vars

\* an upload pass has ended with a failure for a bound document whose page
\* was cleared and not filled again; the document is still selected
C35_Witness ==
  /\ pc = "idle"
  /\ tally.kind = "upload"
  /\ tally.failed >= 1
  /\ \E f \in Docs :
       /\ attempts[f] = 1
       /\ BoundId(f) # NoId
       /\ pages[BoundId(f)].blocks = <<>>
       /\ SelectedForUpload(f)

\* C36: in a pull pass, selecting the documents and asking for the
\* confirmation modify no document; no document is written in a pass whose
\* confirmation was declined; a step that writes modifies only documents
\* that the download filter selected, that are bound to a remote id, and
\* each keeps its remote id.
C36_PullWritesOnlyAfterConfirmation ==
  [][ /\ ( \/ \E ff \in SUBSET PageIds : FilterFilesForDownload(ff)
           \/ \E c \in BOOLEAN : ConfirmPull(c) )
         => files' = files
      /\ PullStep =>
           /\ tally.outcome # "declined"
           /\ \A f \in Docs :
                files'[f] # files[f] =>
                  /\ f \in SelectedFiles(selected)
                  /\ BoundId(f) # NoId
                  /\ BoundId(f)' = BoundId(f) ]_vars

\* the confirmation of a pull pass was declined: the pass is over and the
\* document it had selected still holds a text other than the remote one
C36_Witness ==
  /\ pc = "idle"
  /\ tally.kind = "pull"
  /\ tally.outcome = "declined"
  /\ selected # <<>>
  /\ \A k \in 1..Len(selected) :
       files[selected[k].file].body # selected[k].notionContent

\* the queue is empty, no processQueue call is waiting for an operation,
\* and every operation has succeeded or was given up
Drained ==
  /\ syncQueue = <<>>
  /\ inFlight = {}
  /\ syncInProgress = {}
  /\ \A id \in OpsCreated : ops[id].state \in {"succeeded", "dropped"}

\* C37: while the connectivity stays up, with finitely many queueOperation
\* calls and no network-class failure, no operation is executed more than 3
\* times, and from some moment on the queue is empty, every operation has
\* succeeded or exhausted its retries and every processQueue call has
\* returned.
C37_QueueProcessingTerminates ==
  /\ [](\A id \in OpsCreated : ops[id].execs <= MaxRetries)
  /\ <>[]Drained

\* two operations were enqueued; one succeeded, the other was given up
\* after its third execution, and the queue is drained
C37_Witness ==
  /\ Drained
  /\ isOnline
  /\ \E a \in OpsCreated, b \in OpsCreated :
       /\ ops[a].state = "succeeded"
       /\ ops[b].state = "dropped"
       /\ ops[b].execs = MaxRetries
====
